---- MODULE Spec2Model ----
(***************************************************************************)
(* Model of the agentic tool-use loop of agentic_aws.agent.AWSAgenticAgent *)
(* (process_request and the dispatcher it calls) and of the operation      *)
(* poller (_poll_operation_status).                                        *)
(*                                                                         *)
(* Texts are modelled as sequences of tokens: string concatenation is      *)
(* sequence concatenation, "contains" is "has as a contiguous run",        *)
(* "starts with" is "has as first token".                                  *)
(***************************************************************************)
EXTENDS Integers, Sequences, FiniteSets, TLC

\* ------------------------------------------------------------------ bounds
\* largest max_iterations argument explored
MaxIter == 2
\* largest number of content blocks the model returns over one request,
\* counting the blocks of the current response and the segments recorded
MaxSegments == 2
\* the counts of status queries and of sleeps are kept up to this value
MaxCount == 20
\* largest number of resource descriptions in a list_resources response
MaxResources == 2
\* largest number of events in a filter_log_events response
MaxEvents == 11
\* number of request threads of the process
MaxThreads == 2
\* largest number of requests one thread serves
MaxRequests == 2

\* max_delay, in seconds
MaxDelay == 30
\* number of log entries kept in error_logs
LogLimit == 10
\* default of max_wait_seconds
DefaultMaxWaitSeconds == 120
\* default of initial_delay, in seconds
DefaultInitialDelay == 2

VARIABLES
    pc,                \* position in process_request
    history,           \* the caller's list, mutated in place
    history0,          \* the list as it was when process_request was called
    user_input,        \* argument user_input
    max_iterations,    \* argument max_iterations
    iteration,         \* local iteration
    final_response,    \* local final_response
    response,          \* local response (the last model response)
    block,             \* index of the next element of response.content
    assistant_content, \* local assistant_content
    tool_results,      \* local tool_results
    response_text,     \* local response_text
    result,            \* what the call handed to its caller (text or exception)
    gen_calls,         \* calls of client.messages.create made by the loop
    tool_calls         \* calls of _execute_tool made by the loop

loopVars == <<pc, history, history0, user_input, max_iterations, iteration,
              final_response, response, block, assistant_content,
              tool_results, response_text, result, gen_calls, tool_calls>>

VARIABLES
    ppc,               \* position in _poll_operation_status
    max_wait_seconds,  \* argument max_wait_seconds (seconds)
    initial_delay,     \* argument initial_delay (ticks)
    delay,             \* local delay (ticks)
    elapsed,           \* local elapsed (ticks)
    operation_status,  \* local operation_status of the last status query
    progress,          \* the OperationProgress returned
    progress_event,    \* local progress_event of the last status query
    client_error,      \* the ClientError caught at line 425, if any
    queries,           \* calls of get_resource_request_status made
    sleeps,            \* calls of time.sleep made
    slept              \* the arguments of the time.sleep calls, in order (ticks)

pollVars == <<ppc, max_wait_seconds, initial_delay, delay, elapsed,
              operation_status, progress, progress_event, client_error,
              queries, sleeps, slept>>

\* One call of _execute_tool for the resource-control tool, or one direct call
\* of _execute_aws_operation.
VARIABLES
    epc,               \* position in _execute_tool / _execute_aws_operation
    entry,             \* the function the caller invoked
    tool_input,        \* the argument mapping handed to _execute_tool
    args,              \* the parameters of _execute_aws_operation
    provider_calls,    \* the resource-control provider calls made, in order
    provider_answer,   \* what the provider answered: a response or a fault
    op_result,         \* the OperationResult produced
    narration,         \* the narration path _generate_summary took
    tool_name,         \* the tool name handed to _execute_tool
    tool_result,       \* local result of _execute_tool: the dict it returns
    tool_text,         \* the formatted text _execute_tool returns
    log_calls,         \* the log-query provider calls made, in order
    generation_calls,  \* text-generation calls made by the narration
    generation_outcome \* how the narration's text-generation call ended

execVars == <<epc, entry, tool_input, args, provider_calls, provider_answer,
              op_result, narration, tool_name, tool_result, tool_text,
              log_calls, generation_calls, generation_outcome>>

\* The process-wide state shared by the request threads of the /chat
\* endpoint: the lru_cache of get_agent and the class attribute _tools.
VARIABLES
    tpc,               \* position of each request thread
    requests,          \* requests each thread has finished or abandoned
    cache,             \* the agent held by the lru_cache of get_agent (0: none)
    instances,         \* AWSAgenticAgent constructions completed
    connection,        \* outcome of each thread's last validate_connection
    made,              \* the agent each thread's constructor call built
    agents_returned,   \* the agents get_agent has returned
    tools,             \* AWSAgenticAgent._tools (0: None)
    file_reads,        \* reads of tools.json
    loaded,            \* the object each thread parsed from tools.json
    tools_returned     \* the objects _format_tools has returned

procVars == <<tpc, requests, cache, instances, connection, made,
              agents_returned, tools, file_reads, loaded, tools_returned>>

vars == <<loopVars, pollVars, execVars, procVars>>

\* ------------------------------------------------------------------ values
Tok(kind, it, ix) == [kind |-> kind, it |-> it, ix |-> ix]

\* a str-valued content, as ChatMessage.model_dump() and line 606 produce
StrContent(s) == [ctype |-> "str", items |-> <<[type |-> "str", str |-> s]>>]
\* a list-valued content, as lines 665 and 668 produce
ListContent(items) == [ctype |-> "list", items |-> items]

Turn(role, content) == [role |-> role, content |-> content]

ToolNames == {"aws_cloud_control", "cloudwatch_logs", "no_such_tool"}
StopReasons == {"end_turn", "tool_use", "max_tokens"}

\* the histories a caller passes in: empty, or one earlier exchange
InitialHistories ==
    { <<>>,
      << Turn("user", StrContent("earlier question")),
         Turn("assistant", StrContent("earlier answer")) >> }

UserInputs == {"question"}

\* the max_iterations arguments explored
MaxIterationsArgs == 0..MaxIter

NoResponse == [stop_reason |-> "none", content |-> <<>>]

\* content blocks the text-generation capability may return
TextBlock == [type |-> "text"]
ToolUseBlock(name) == [type |-> "tool_use", name |-> name]
OtherBlock == [type |-> "thinking"]
Blocks == {TextBlock, OtherBlock} \cup {ToolUseBlock(n) : n \in ToolNames}

SeqsUpTo(S, n) == UNION {[1..k -> S] : k \in 0..n}

\* the number of segments the assistant turns of h hold
RECURSIVE SegmentsRecorded(_)
SegmentsRecorded(h) ==
    IF h = <<>> THEN 0
    ELSE LET t == h[Len(h)]
         IN  SegmentsRecorded(SubSeq(h, 1, Len(h) - 1))
             + (IF t.role = "assistant" /\ t.content.ctype = "list"
                THEN Len(t.content.items) ELSE 0)

\* ------------------------------------------------------- narration, dispatch
\* an OperationResult / CloudWatchResult dict, or the unknown-tool dict
\* (which has no "status" key)
Result(status) == [status |-> status]
UnknownToolResult == [status |-> "absent"]

\* json.dumps(result): the serialized form kept in the history
JsonDumps(res) == [json |-> res]

\* _diagnose_error: the generation fault is caught, the raw error is returned
DiagnoseError(gen_ok) ==
    IF gen_ok THEN [raised |-> FALSE, text |-> "diagnosis"]
              ELSE [raised |-> FALSE, text |-> "raw_error"]

\* _generate_summary: error results are diagnosed; on the summary path a
\* generation fault is re-raised as ToolExecutionError
GenerateSummary(res, gen_ok) ==
    IF res.status = "error" THEN DiagnoseError(gen_ok)
    ELSE IF gen_ok THEN [raised |-> FALSE, text |-> "summary"]
                   ELSE [raised |-> TRUE,  text |-> "ToolExecutionError"]

\* _execute_tool: status is what the tool's capability call produced
\* ("success" or "error"), gen_ok whether the narration's generation call
\* succeeds; it, ix locate the call (they tag the produced text)
ExecuteTool(name, status, gen_ok, it, ix) ==
    IF name \in {"aws_cloud_control", "cloudwatch_logs"}
    THEN LET res == Result(status)
             nar == GenerateSummary(res, gen_ok)
         IN  [raised |-> nar.raised,
              exc    |-> nar.text,
              result |-> res,
              output |-> IF name = "cloudwatch_logs"
                         THEN <<Tok("cloudwatch_result", it, ix), Tok(nar.text, it, ix)>>
                         ELSE <<Tok(nar.text, it, ix)>>]
    ELSE [raised |-> FALSE,
          exc    |-> "",
          result |-> UnknownToolResult,
          output |-> <<Tok("unknown_tool", it, ix)>>]

\* ------------------------------------------------------------ loop helpers
\* a mutation of line 611: off by one
LoopGuardInclusive(it, max) == it <= max

\* line 611: the while condition
LoopGuard(it, max) == it < max

\* a mutation of lines 672-678: the second break is left out
ShouldBreakEndTurnOnly(stop) == stop = "end_turn"

\* lines 672-678: both break conditions
ShouldBreak(stop) == stop = "end_turn" \/ stop # "tool_use"

\* line 680: the condition under which the note is appended
NoteCondition(it, max) == it >= max

NoteText == <<Tok("note", 0, 0)>>

\* lines 686-693: the diagnostic text of a caught generation fault
ErrorText(fault) == <<Tok("Error:", 0, 0), Tok(fault, 0, 0)>>

\* a mutation of line 606: the user turn is put in front (history.insert(0, ...))
AppendUserInFront(h, msg) == <<Turn("user", StrContent(msg))>> \o h

\* line 606
AppendUser(h, msg) == Append(h, Turn("user", StrContent(msg)))

\* a mutation of lines 665-668: the tool-result turn is appended first
AppendTurnsResultsFirst(h, ac, tr) ==
    LET h1 == IF tr # <<>> THEN Append(h, Turn("user", ListContent(tr))) ELSE h
    IN  Append(h1, Turn("assistant", ListContent(ac)))

\* a mutation of lines 667-668: the tool-result turn is not appended
AppendTurnsAssistantOnly(h, ac, tr) ==
    Append(h, Turn("assistant", ListContent(ac)))

\* lines 665-668
AppendTurns(h, ac, tr) ==
    LET h1 == Append(h, Turn("assistant", ListContent(ac)))
    IN  IF tr # <<>> THEN Append(h1, Turn("user", ListContent(tr))) ELSE h1

\* a mutation of line 670: the assignment is lost
NextFinalResponseKept(prev, text) == prev

\* line 670
NextFinalResponse(prev, text) == text

\* lines 631-636
TextSegment(it, ix) == [type |-> "text", text |-> Tok("text", it, ix)]
\* lines 648-655; the call id is opaque and unique, here the call's position
CallId(it, ix) == [it |-> it, ix |-> ix]
ToolUseSegment(it, ix, name) ==
    [type |-> "tool_use", id |-> CallId(it, ix), name |-> name]
\* lines 657-663
ToolResultEntry(it, ix, res) ==
    [type |-> "tool_result", tool_use_id |-> CallId(it, ix), content |-> JsonDumps(res)]

NoProgress == [operation_status |-> "none"]
\* no status query has answered yet
NoEvent == [OperationStatus |-> "unset"]
\* no status query has failed
NoError == [Message |-> "unset"]

NoResult == [kind |-> "none", value |-> <<>>]
Returned(text) == [kind |-> "text", value |-> text]
Raised(exc) == [kind |-> "exception", value |-> <<Tok(exc, 0, 0)>>]

GenerationFaults == {"APIConnectionError", "APIStatusError"}

\* the request threads
Threads == 1..MaxThreads

\* no validate_connection call made
NoConnection == [identity |-> "none", result |-> "none"]

\* no request thread is running
ProcIdle ==
    /\ tpc = [t \in Threads |-> "off"]
    /\ requests = [t \in Threads |-> 0]
    /\ cache = 0
    /\ instances = 0
    /\ connection = [t \in Threads |-> NoConnection]
    /\ made = [t \in Threads |-> 0]
    /\ agents_returned = {}
    /\ tools = 0
    /\ file_reads = 0
    /\ loaded = [t \in Threads |-> 0]
    /\ tools_returned = {}

\* Python's None, and a value that is present
NoneValue == [none |-> TRUE]
Some(v) == [some |-> v]

\* no call of the executor made, no tool input given, no result produced
NoArgs == [none |-> TRUE]
NoToolInput == [none |-> TRUE]
NoOpResult == [status |-> "none"]
NoAnswer == [kind |-> "none"]
NoToolResult == [status |-> "none"]

ExecIdle ==
    /\ epc = "idle"
    /\ entry = "none"
    /\ tool_input = NoToolInput
    /\ args = NoArgs
    /\ provider_calls = <<>>
    /\ provider_answer = NoAnswer
    /\ op_result = NoOpResult
    /\ narration = "none"
    /\ tool_name = "none"
    /\ tool_result = NoToolResult
    /\ tool_text = <<>>
    /\ log_calls = <<>>
    /\ generation_calls = 0
    /\ generation_outcome = "none"

\* the poller is not running
PollIdle ==
    /\ ppc = "idle"
    /\ max_wait_seconds = 0
    /\ initial_delay = 0
    /\ delay = 0
    /\ elapsed = 0
    /\ operation_status = "none"
    /\ progress = NoProgress
    /\ progress_event = NoEvent
    /\ client_error = NoError
    /\ queries = 0
    /\ sleeps = 0
    /\ slept = <<>>

\* -------------------------------------------------- process_request: actions
Init ==
    /\ pc = "start"
    /\ history0 \in InitialHistories
    /\ history = history0
    /\ user_input \in UserInputs
    /\ max_iterations \in MaxIterationsArgs
    /\ iteration = 0
    /\ final_response = <<>>
    /\ response = NoResponse
    /\ block = 1
    /\ assistant_content = <<>>
    /\ tool_results = <<>>
    /\ response_text = <<>>
    /\ result = NoResult
    /\ gen_calls = 0
    /\ tool_calls = 0
    /\ PollIdle
    /\ ExecIdle
    /\ ProcIdle

\* lines 606-608
Start ==
    /\ pc = "start"
    /\ history' = AppendUser(history, user_input)
    /\ final_response' = <<>>
    /\ iteration' = 0
    /\ pc' = "loop"
    /\ UNCHANGED <<history0, user_input, max_iterations, response, block,
                   assistant_content, tool_results, response_text, result,
                   gen_calls, tool_calls>>
    /\ UNCHANGED pollVars
    /\ UNCHANGED execVars
    /\ UNCHANGED procVars

\* lines 611-625: the loop test passes, the generation call returns a response
GenCall ==
    /\ pc = "loop"
    /\ LoopGuard(iteration, max_iterations)
    /\ \E content \in SeqsUpTo(Blocks, MaxSegments - SegmentsRecorded(history)),
          stop \in StopReasons :
             response' = [stop_reason |-> stop, content |-> content]
    /\ iteration' = iteration + 1
    /\ gen_calls' = gen_calls + 1
    /\ assistant_content' = <<>>
    /\ tool_results' = <<>>
    /\ response_text' = <<>>
    /\ block' = 1
    /\ pc' = "blocks"
    /\ UNCHANGED <<history, history0, user_input, max_iterations,
                   final_response, result, tool_calls>>
    /\ UNCHANGED pollVars
    /\ UNCHANGED execVars
    /\ UNCHANGED procVars

\* a mutation of lines 686-693: the handler also records an (empty) assistant
\* turn for the failed iteration
GenFaultRecorded ==
    /\ pc = "loop"
    /\ LoopGuard(iteration, max_iterations)
    /\ iteration' = iteration + 1
    /\ gen_calls' = gen_calls + 1
    /\ \E fault \in GenerationFaults : result' = Returned(ErrorText(fault))
    /\ history' = Append(history, Turn("assistant", ListContent(<<>>)))
    /\ pc' = "returned"
    /\ UNCHANGED <<history0, user_input, max_iterations,
                   final_response, response, block, assistant_content,
                   tool_results, response_text, tool_calls>>
    /\ UNCHANGED pollVars
    /\ UNCHANGED execVars
    /\ UNCHANGED procVars

\* lines 611-621, 686-693: the generation call fails; the fault is caught at
\* the outer boundary and turned into the returned text
GenFault ==
    /\ pc = "loop"
    /\ LoopGuard(iteration, max_iterations)
    /\ iteration' = iteration + 1
    /\ gen_calls' = gen_calls + 1
    /\ \E fault \in GenerationFaults : result' = Returned(ErrorText(fault))
    /\ pc' = "returned"
    /\ UNCHANGED <<history, history0, user_input, max_iterations,
                   final_response, response, block, assistant_content,
                   tool_results, response_text, tool_calls>>
    /\ UNCHANGED pollVars
    /\ UNCHANGED execVars
    /\ UNCHANGED procVars

\* lines 627-636: a text block
ProcessText ==
    /\ pc = "blocks"
    /\ block <= Len(response.content)
    /\ response.content[block].type = "text"
    /\ response_text' = response_text \o <<Tok("text", iteration, block)>>
    /\ assistant_content' = Append(assistant_content, TextSegment(iteration, block))
    /\ block' = block + 1
    /\ UNCHANGED <<pc, history, history0, user_input, max_iterations, iteration,
                   final_response, response, tool_results, result, gen_calls,
                   tool_calls>>
    /\ UNCHANGED pollVars
    /\ UNCHANGED execVars
    /\ UNCHANGED procVars

\* lines 638-663: a tool_use block; _execute_tool returns or raises
ProcessToolUse ==
    /\ pc = "blocks"
    /\ block <= Len(response.content)
    /\ response.content[block].type = "tool_use"
    /\ tool_calls' = tool_calls + 1
    /\ \E status \in {"success", "error"}, gen_ok \in BOOLEAN :
          LET name == response.content[block].name
              out  == ExecuteTool(name, status, gen_ok, iteration, block)
          IN  IF out.raised
              THEN /\ pc' = "raised"
                   /\ result' = Raised(out.exc)
                   /\ UNCHANGED <<response_text, assistant_content,
                                  tool_results, block>>
              ELSE /\ response_text' = response_text \o out.output
                   /\ assistant_content' =
                        Append(assistant_content, ToolUseSegment(iteration, block, name))
                   /\ tool_results' =
                        Append(tool_results, ToolResultEntry(iteration, block, out.result))
                   /\ block' = block + 1
                   /\ UNCHANGED <<pc, result>>
    /\ UNCHANGED <<history, history0, user_input, max_iterations, iteration,
                   final_response, response, gen_calls>>
    /\ UNCHANGED pollVars
    /\ UNCHANGED execVars
    /\ UNCHANGED procVars

\* lines 627-638: a block that is neither text nor tool_use is passed over
ProcessOther ==
    /\ pc = "blocks"
    /\ block <= Len(response.content)
    /\ response.content[block].type \notin {"text", "tool_use"}
    /\ block' = block + 1
    /\ UNCHANGED <<pc, history, history0, user_input, max_iterations, iteration,
                   final_response, response, assistant_content, tool_results,
                   response_text, result, gen_calls, tool_calls>>
    /\ UNCHANGED pollVars
    /\ UNCHANGED execVars
    /\ UNCHANGED procVars

\* lines 665-678: the turns of the iteration are appended, then the stop test;
\* no call and no fault lies between the two appends, so they are one step
EndIteration ==
    /\ pc = "blocks"
    /\ block > Len(response.content)
    /\ history' = AppendTurns(history, assistant_content, tool_results)
    /\ final_response' = NextFinalResponse(final_response, response_text)
    /\ pc' = IF ShouldBreak(response.stop_reason) THEN "after" ELSE "loop"
    /\ UNCHANGED <<history0, user_input, max_iterations, iteration, response,
                   block, assistant_content, tool_results, response_text,
                   result, gen_calls, tool_calls>>
    /\ UNCHANGED pollVars
    /\ UNCHANGED execVars
    /\ UNCHANGED procVars

\* line 611: the loop test fails
LoopExit ==
    /\ pc = "loop"
    /\ ~LoopGuard(iteration, max_iterations)
    /\ pc' = "after"
    /\ UNCHANGED <<history, history0, user_input, max_iterations, iteration,
                   final_response, response, block, assistant_content,
                   tool_results, response_text, result, gen_calls, tool_calls>>
    /\ UNCHANGED pollVars
    /\ UNCHANGED execVars
    /\ UNCHANGED procVars

\* lines 680-684
Finish ==
    /\ pc = "after"
    /\ final_response' = IF NoteCondition(iteration, max_iterations)
                         THEN final_response \o NoteText
                         ELSE final_response
    /\ result' = Returned(final_response')
    /\ pc' = "returned"
    /\ UNCHANGED <<history, history0, user_input, max_iterations, iteration,
                   response, block, assistant_content, tool_results,
                   response_text, gen_calls, tool_calls>>
    /\ UNCHANGED pollVars
    /\ UNCHANGED execVars
    /\ UNCHANGED procVars

Next ==
    \/ Start
    \/ GenCall
    \/ GenFault
    \/ ProcessText
    \/ ProcessToolUse
    \/ ProcessOther
    \/ EndIteration
    \/ LoopExit
    \/ Finish

Spec == Init /\ [][Next]_vars

\* the loop is not running
LoopIdle ==
    /\ pc = "idle"
    /\ history0 = <<>>
    /\ history = <<>>
    /\ user_input = "question"
    /\ max_iterations = 0
    /\ iteration = 0
    /\ final_response = <<>>
    /\ response = NoResponse
    /\ block = 1
    /\ assistant_content = <<>>
    /\ tool_results = <<>>
    /\ response_text = <<>>
    /\ result = NoResult
    /\ gen_calls = 0
    /\ tool_calls = 0

\* ------------------------------------- the budget scenario of process_request
\* process_request(user_input, history, max_iterations=3)
ScenarioInit ==
    /\ pc = "start"
    /\ history0 \in InitialHistories
    /\ history = history0
    /\ user_input \in UserInputs
    /\ max_iterations = 3
    /\ iteration = 0
    /\ final_response = <<>>
    /\ response = NoResponse
    /\ block = 1
    /\ assistant_content = <<>>
    /\ tool_results = <<>>
    /\ response_text = <<>>
    /\ result = NoResult
    /\ gen_calls = 0
    /\ tool_calls = 0
    /\ PollIdle
    /\ ExecIdle
    /\ ProcIdle

\* lines 611-625 with a model that answers every generation call with one
\* tool call and stop reason tool_use
ScenarioGenCall ==
    /\ pc = "loop"
    /\ LoopGuard(iteration, max_iterations)
    /\ \E name \in ToolNames :
          response' = [stop_reason |-> "tool_use", content |-> <<ToolUseBlock(name)>>]
    /\ iteration' = iteration + 1
    /\ gen_calls' = gen_calls + 1
    /\ assistant_content' = <<>>
    /\ tool_results' = <<>>
    /\ response_text' = <<>>
    /\ block' = 1
    /\ pc' = "blocks"
    /\ UNCHANGED <<history, history0, user_input, max_iterations,
                   final_response, result, tool_calls>>
    /\ UNCHANGED pollVars
    /\ UNCHANGED execVars
    /\ UNCHANGED procVars

ScenarioNext ==
    \/ Start
    \/ ScenarioGenCall
    \/ ProcessToolUse
    \/ EndIteration
    \/ LoopExit
    \/ Finish

ScenarioSpec == ScenarioInit /\ [][ScenarioNext]_vars

\* ------------------------------------------------- _poll_operation_status
\* times are counted in ticks of 1/4096 second: every delay the explored
\* arguments produce is a whole number of ticks
TicksPerSecond == 2 ^ 12
Seconds(n) == n * TicksPerSecond

Min(a, b) == IF a <= b THEN a ELSE b

MaxDelayTicks == Seconds(MaxDelay)

\* the arguments explored
MaxWaits == {0, 1, 5, DefaultMaxWaitSeconds}
InitialDelays ==
    {0, TicksPerSecond \div 2, Seconds(DefaultInitialDelay), Seconds(10), Seconds(40)}

OperationStatuses ==
    {"PENDING", "IN_PROGRESS", "SUCCESS", "FAILED", "CANCEL_IN_PROGRESS", "CANCEL_COMPLETE"}
\* line 411
TerminalStatuses == {"SUCCESS", "FAILED", "CANCEL_COMPLETE"}

\* what get_resource_request_status answers: a ProgressEvent with or without
\* its optional keys ("absent" marks a missing key)
ProgressEvents ==
    [OperationStatus : OperationStatuses \cup {"absent"},
     TypeName        : {"AWS::S3::Bucket"},
     Identifier      : {"bucket-1"},
     StatusMessage   : {"message"},
     ErrorCode       : {"code"}]
    \cup
    [OperationStatus : OperationStatuses \cup {"absent"},
     TypeName        : {"absent"},
     Identifier      : {"absent"},
     StatusMessage   : {"absent"},
     ErrorCode       : {"absent"}]

\* the ClientError of a failed status query: its message and code
ClientErrors == {[Message |-> "throttled", Code |-> "ThrottlingException"],
                 [Message |-> "denied", Code |-> "absent"]}

\* dict.get(key, default)
Get(value, default) == IF value = "absent" THEN default ELSE value

\* line 404
StatusOf(ev) == Get(ev.OperationStatus, "PENDING")

\* a terminal record that leaves the identifier out
TerminalProgressNoIdentifier(ev) ==
    [operation_status |-> StatusOf(ev),
     resource_type    |-> Get(ev.TypeName, ""),
     identifier       |-> "None",
     status_message   |-> Get(ev.StatusMessage, "None"),
     error_code       |-> Get(ev.ErrorCode, "None"),
     retry_after      |-> -1]

\* lines 412-419
TerminalProgress(ev) ==
    [operation_status |-> StatusOf(ev),
     resource_type    |-> Get(ev.TypeName, ""),
     identifier       |-> Get(ev.Identifier, "None"),
     status_message   |-> Get(ev.StatusMessage, "None"),
     error_code       |-> Get(ev.ErrorCode, "None"),
     retry_after      |-> -1]

\* a fault record that reads the code from the wrong level of the response
FailedProgressNoCode(err) ==
    [operation_status |-> "FAILED",
     resource_type    |-> "",
     identifier       |-> "None",
     status_message   |-> "Failed to poll status: " \o err.Message,
     error_code       |-> "None",
     retry_after      |-> -1]

\* lines 428-434
FailedProgress(err) ==
    [operation_status |-> "FAILED",
     resource_type    |-> "",
     identifier       |-> "None",
     status_message   |-> "Failed to poll status: " \o err.Message,
     error_code       |-> Get(err.Code, "None"),
     retry_after      |-> -1]

\* round(delay) in place of int(delay)
RoundOf(d) == (d + TicksPerSecond \div 2) \div TicksPerSecond

\* int(delay), delay >= 0
IntOf(d) == d \div TicksPerSecond

\* a timeout record without the retry hint
TimeoutProgressNoHint(d) ==
    [operation_status |-> "IN_PROGRESS",
     resource_type    |-> "",
     identifier       |-> "None",
     status_message   |-> "Operation still in progress",
     error_code       |-> "None",
     retry_after      |-> -1]

\* lines 436-442; retry_after = -1 stands for None
TimeoutProgress(d) ==
    [operation_status |-> "IN_PROGRESS",
     resource_type    |-> "",
     identifier       |-> "None",
     status_message   |-> "Operation still in progress",
     error_code       |-> "None",
     retry_after      |-> IntOf(d)]

\* a mutation of line 423: the delay doubles
NextDelayDoubling(d) == Min(d * 2, MaxDelayTicks)

\* line 423
NextDelay(d) == Min((d * 3) \div 2, MaxDelayTicks)

\* line 398
PollGuard(e, max_wait) == e < Seconds(max_wait)

PollInit ==
    /\ LoopIdle
    /\ ExecIdle
    /\ ProcIdle
    /\ ppc = "start"
    /\ max_wait_seconds \in MaxWaits
    /\ initial_delay \in InitialDelays
    /\ delay = 0
    /\ elapsed = 0
    /\ operation_status = "none"
    /\ progress = NoProgress
    /\ progress_event = NoEvent
    /\ client_error = NoError
    /\ queries = 0
    /\ sleeps = 0
    /\ slept = <<>>

\* lines 391-396
PollStart ==
    /\ ppc = "start"
    /\ delay' = initial_delay
    /\ elapsed' = 0
    /\ ppc' = "test"
    /\ UNCHANGED <<max_wait_seconds, initial_delay, operation_status, progress,
                   progress_event, client_error, queries, sleeps, slept>>
    /\ UNCHANGED loopVars
    /\ UNCHANGED execVars
    /\ UNCHANGED procVars

\* lines 398-419: the loop test passes and the status query answers
PollQuery ==
    /\ ppc = "test"
    /\ PollGuard(elapsed, max_wait_seconds)
    /\ queries' = Min(queries + 1, MaxCount)
    /\ \E ev \in ProgressEvents :
          /\ progress_event' = ev
          /\ operation_status' = StatusOf(ev)
          /\ IF StatusOf(ev) \in TerminalStatuses
             THEN /\ progress' = TerminalProgress(ev)
                  /\ ppc' = "returned"
             ELSE /\ progress' = progress
                  /\ ppc' = "sleep"
    /\ UNCHANGED <<max_wait_seconds, initial_delay, delay, elapsed,
                   client_error, sleeps, slept>>
    /\ UNCHANGED loopVars
    /\ UNCHANGED execVars
    /\ UNCHANGED procVars

\* lines 398-400, 425-434: the status query fails with a ClientError
PollFault ==
    /\ ppc = "test"
    /\ PollGuard(elapsed, max_wait_seconds)
    /\ queries' = Min(queries + 1, MaxCount)
    /\ \E err \in ClientErrors :
          /\ client_error' = err
          /\ progress' = FailedProgress(err)
    /\ ppc' = "returned"
    /\ UNCHANGED <<max_wait_seconds, initial_delay, delay, elapsed,
                   operation_status, progress_event, sleeps, slept>>
    /\ UNCHANGED loopVars
    /\ UNCHANGED execVars
    /\ UNCHANGED procVars

\* lines 421-423
PollSleep ==
    /\ ppc = "sleep"
    /\ sleeps' = Min(sleeps + 1, MaxCount)
    /\ slept' = IF Len(slept) < MaxCount THEN Append(slept, delay) ELSE slept
    /\ elapsed' = elapsed + delay
    /\ delay' = NextDelay(delay)
    /\ ppc' = "test"
    /\ UNCHANGED <<max_wait_seconds, initial_delay, operation_status, progress,
                   progress_event, client_error, queries>>
    /\ UNCHANGED loopVars
    /\ UNCHANGED execVars
    /\ UNCHANGED procVars

\* lines 398, 436-442: the loop test fails
PollTimeout ==
    /\ ppc = "test"
    /\ ~PollGuard(elapsed, max_wait_seconds)
    /\ progress' = TimeoutProgress(delay)
    /\ ppc' = "returned"
    /\ UNCHANGED <<max_wait_seconds, initial_delay, delay, elapsed,
                   operation_status, progress_event, client_error, queries,
                   sleeps, slept>>
    /\ UNCHANGED loopVars
    /\ UNCHANGED execVars
    /\ UNCHANGED procVars

PollNext ==
    \/ PollStart
    \/ PollQuery
    \/ PollFault
    \/ PollSleep
    \/ PollTimeout

PollSpec == PollInit /\ [][PollNext]_vars

\* every delay that line 423 multiplies is an even number of ticks, so the
\* tick arithmetic of NextDelay is exact
DelayExact == ppc \in {"test", "sleep"} => (delay * 3) % 2 = 0

\* fairness: the polling thread keeps running until it has returned
PollFairSpec == PollSpec /\ WF_vars(PollNext)

----------------------------------------------------------------------------
\* The Executor (_execute_aws_operation and its five handlers) and the
\* resource-control branch of the Dispatcher (_execute_tool).

\* models.py line 10
AWSOperation == {"create", "read", "update", "delete", "list"}

\* operation values a caller may pass: the enum and one value outside it
Operations == AWSOperation \cup {"purge"}

\* resource types: one matching AWS_RESOURCE_TYPE_PATTERN, one that does not
ResourceTypes == {"AWS::S3::Bucket", "bucket"}
WellFormedResourceTypes == {"AWS::S3::Bucket"}

\* identifiers: the empty string, one matching SAFE_IDENTIFIER_PATTERN, one
\* that does not
Identifiers == {"", "bucket-1", "a b"}
SafeIdentifiers == {"bucket-1"}

\* regions: one of the allow-list of validate_region, one outside it
Regions == {"us-east-1", "mars-1"}
ValidRegions == {"us-east-1"}

\* max_results values below, inside, at the edge of and above the schema range
MaxResultsArgs == {0, 1, 20, 100, 101}

\* pagination tokens
NextTokens == {"", "page-2"}

\* properties mappings, as sequences of members in insertion order
PropertyMappings ==
    {<<>>,
     <<[key |-> "Name", value |-> "a"]>>,
     <<[key |-> "Name", value |-> "a"], [key |-> "Tags", value |-> "t"]>>}

\* request tokens the provider may put in a ProgressEvent
RequestTokens == {"absent", "", "tok-1"}

\* the parameters of a direct call of _execute_aws_operation
ExecutorArgs ==
    [operation     : Operations,
     resource_type : ResourceTypes,
     identifier    : {NoneValue} \cup {Some(i) : i \in Identifiers},
     properties    : {NoneValue} \cup {Some(m) : m \in PropertyMappings},
     region        : Regions,
     max_results   : MaxResultsArgs,
     next_token    : {NoneValue} \cup {Some(t) : t \in NextTokens}]

\* the argument mappings the model may emit for the resource-control tool; a
\* string key that is missing has the value "absent"
ToolInputs ==
    [operation     : Operations \cup {"absent"},
     resource_type : ResourceTypes \cup {"absent"},
     identifier    : Identifiers \cup {" bucket-1 ", "absent"},
     properties    : {NoneValue} \cup {Some(m) : m \in PropertyMappings},
     region        : Regions \cup {"absent"},
     max_results   : MaxResultsArgs,
     next_token    : NextTokens \cup {"absent"}]

\* a value of an optional string field
Opt(s) == IF s = "absent" THEN NoneValue ELSE Some(s)

\* `not identifier`, `not next_token`, `not request_token`
EmptyString(v) == IF v = NoneValue THEN TRUE ELSE v.some = ""

\* `not properties`
EmptyMapping(v) == IF v = NoneValue THEN TRUE ELSE v.some = <<>>

\* str_strip_whitespace (models.py line 41): a string field is stripped of
\* leading and trailing whitespace before it is validated
Strip(s) == IF s = " bucket-1 " THEN "bucket-1" ELSE s

\* a schema without the bounds of max_results
ValidatesAnyCount(ti) ==
    /\ ti.operation \in AWSOperation
    /\ ti.resource_type \in WellFormedResourceTypes
    /\ ti.identifier = "absent" \/ Strip(ti.identifier) \in SafeIdentifiers
    /\ ti.region = "absent" \/ ti.region \in ValidRegions

\* AWSResourceInput(**tool_input) succeeds
Validates(ti) ==
    /\ ti.operation \in AWSOperation
    /\ ti.resource_type \in WellFormedResourceTypes
    /\ ti.identifier = "absent" \/ Strip(ti.identifier) \in SafeIdentifiers
    /\ ti.region = "absent" \/ ti.region \in ValidRegions
    /\ ti.max_results \in 1..100

\* the fields of the validated input, with the defaults of the schema
Validated(ti) ==
    [operation     |-> ti.operation,
     resource_type |-> ti.resource_type,
     identifier    |-> Opt(Strip(ti.identifier)),
     properties    |-> ti.properties,
     region        |-> Get(ti.region, "us-east-1"),
     max_results   |-> ti.max_results,
     next_token    |-> Opt(ti.next_token)]

\* OperationResult(...) with every optional field at its default
OperationResult(status, operation, resource_type) ==
    [status        |-> status,
     operation     |-> operation,
     resource_type |-> resource_type,
     identifier    |-> NoneValue,
     request_token |-> NoneValue,
     message       |-> NoneValue,
     count         |-> NoneValue,
     resources     |-> NoneValue,
     properties    |-> NoneValue,
     next_token    |-> NoneValue,
     error         |-> NoneValue,
     aws_error     |-> NoneValue]

\* what a piece of code ends with: a returned result, a provider call to
\* make, or a raised exception
Return(res) == [kind |-> "return", value |-> res]
Call(params) == [kind |-> "call", value |-> params]
Raise(exc) == [kind |-> "raise", value |-> exc]

\* JSON documents: an object with members, or a text that does not parse
ObjectDoc(members) == [json |-> "object", members |-> members]
InvalidDoc == [json |-> "invalid"]
\* json.dumps of a patch document
ArrayDoc(items) == [json |-> "array", items |-> items]

\* json.loads succeeds with a mapping
Parses(doc) == doc.json = "object"
\* json.loads(doc), when it succeeds
JsonLoads(doc) == doc.members

\* faults of a provider call: botocore's ClientError with or without a
\* message, and a fault that is not a ClientError
ProviderFaults ==
    {[type |-> "ClientError", Message |-> "denied"],
     [type |-> "ClientError", Message |-> ""],
     [type |-> "ClientError", Message |-> "absent"],
     [type |-> "EndpointConnectionError", Message |-> "absent"]}

\* str(e)
StrOf(fault) == "An error occurred when calling the operation"

\* e.response.get("Error", {}).get("Message", str(e))
ErrorMessage(fault) == Get(fault.Message, StrOf(fault))

\* an error text made of the provider's message alone
FailureTextBare(prefix, message) == <<message>>

\* f"Failed to ... resource: {error_message}"
FailureText(prefix, message) == <<prefix, message>>

\* the start of the error text of each handler's except clause
FailurePrefix(operation) ==
    IF operation = "list" THEN "Failed to list resources: "
    ELSE "Failed to " \o operation \o " resource: "

\* the error result of the except ClientError clause of a handler
ClientErrorResult(operation, a, fault) ==
    [OperationResult("error", operation, a.resource_type) EXCEPT
        !.identifier = IF operation \in {"read", "update", "delete"}
                       THEN a.identifier ELSE NoneValue,
        !.error = Some(FailureText(FailurePrefix(operation),
                                   ErrorMessage(fault))),
        !.aws_error = Some(StrOf(fault))]

\* lines 141-144
CreateCall(a) ==
    [api          |-> "create_resource",
     TypeName     |-> a.resource_type,
     DesiredState |-> IF EmptyMapping(a.properties) THEN ObjectDoc(<<>>)
                      ELSE ObjectDoc(a.properties.some)]

\* list parameters that pass max_results on as given
ListParamsUncapped(a) ==
    [api        |-> "list_resources",
     TypeName   |-> a.resource_type,
     MaxResults |-> a.max_results,
     NextToken  |-> IF EmptyString(a.next_token) THEN "absent"
                    ELSE a.next_token.some]

\* list parameters that pass on every next_token that is not None
ListParamsAnyToken(a) ==
    [api        |-> "list_resources",
     TypeName   |-> a.resource_type,
     MaxResults |-> Min(a.max_results, 100),
     NextToken  |-> IF a.next_token = NoneValue THEN "absent"
                    ELSE a.next_token.some]

\* lines 194-199
ListParams(a) ==
    [api        |-> "list_resources",
     TypeName   |-> a.resource_type,
     MaxResults |-> Min(a.max_results, 100),
     NextToken  |-> IF EmptyString(a.next_token) THEN "absent"
                    ELSE a.next_token.some]

\* lines 238-241
GetCall(a) ==
    [api        |-> "get_resource",
     TypeName   |-> a.resource_type,
     Identifier |-> a.identifier.some]

\* a patch document whose operations add instead of replace
PatchDocumentAdd(properties) ==
    [k \in 1..Len(properties) |->
        [op    |-> "add",
         path  |-> "/" \o properties[k].key,
         value |-> properties[k].value]]

\* line 283
PatchDocument(properties) ==
    [k \in 1..Len(properties) |->
        [op    |-> "replace",
         path  |-> "/" \o properties[k].key,
         value |-> properties[k].value]]

\* lines 285-289
UpdateCall(a) ==
    [api           |-> "update_resource",
     TypeName      |-> a.resource_type,
     Identifier    |-> a.identifier.some,
     PatchDocument |-> ArrayDoc(PatchDocument(a.properties.some))]

\* lines 334-337
DeleteCall(a) ==
    [api        |-> "delete_resource",
     TypeName   |-> a.resource_type,
     Identifier |-> a.identifier.some]

\* a test for the missing identifier that lets the empty string through
MissingIdentifierNoneOnly(a) ==
    /\ a.operation \in {"read", "update", "delete"}
    /\ a.identifier = NoneValue

\* line 106
MissingIdentifier(a) ==
    /\ a.operation \in {"read", "update", "delete"}
    /\ EmptyString(a.identifier)

\* lines 107-112
RequiresIdentifierResult(a) ==
    [OperationResult("error", a.operation, a.resource_type) EXCEPT
        !.error = Some(<<"Operation '", a.operation, "' requires an ",
                         "identifier">>)]

\* lines 276-282
PropertiesRequiredResult(a) ==
    [OperationResult("error", "update", a.resource_type) EXCEPT
        !.identifier = a.identifier,
        !.error = Some(<<"Properties are required for update operations">>)]

\* lines 91-119: the branch taken for the parameters a.  The last branch is
\* only reached with an operation outside the enum, which the constructor
\* of OperationResult rejects with a ValidationError.
ExecuteAwsOperation(a) ==
    IF a.operation = "create" THEN Call(CreateCall(a))
    ELSE IF a.operation = "list" THEN Call(ListParams(a))
    ELSE IF a.operation = "read" /\ ~EmptyString(a.identifier)
    THEN Call(GetCall(a))
    ELSE IF a.operation = "update" /\ ~EmptyString(a.identifier)
    THEN IF EmptyMapping(a.properties)
         THEN Return(PropertiesRequiredResult(a))
         ELSE Call(UpdateCall(a))
    ELSE IF a.operation = "delete" /\ ~EmptyString(a.identifier)
    THEN Call(DeleteCall(a))
    ELSE IF MissingIdentifier(a) THEN Return(RequiresIdentifierResult(a))
    ELSE Raise("ValidationError")

\* the documents of a resource description
Docs == {ObjectDoc(<<[key |-> "Name", value |-> "a"]>>), InvalidDoc}

\* resource descriptions, with or without a Properties document
Descriptions == {[Properties |-> NoneValue]}
                \cup {[Properties |-> Some(d)] : d \in Docs}

\* responses of create_resource, update_resource and delete_resource
ProgressResponses ==
    {[keys |-> {}, RequestToken |-> "absent"]}
    \cup {[keys |-> {"ProgressEvent"}, RequestToken |-> t] :
             t \in RequestTokens}

\* responses of get_resource
ReadResponses ==
    {[keys |-> {}, Properties |-> InvalidDoc]}
    \cup {[keys |-> {"ResourceDescription"}, Properties |-> d] : d \in Docs}

\* responses of list_resources
ListResponses ==
    [ResourceDescriptions :
         {NoneValue}
         \cup {Some(ds) : ds \in SeqsUpTo(Descriptions, MaxResources)},
     NextToken : {"absent", "", "page-3"}]

Responses(api) ==
    IF api = "list_resources" THEN ListResponses
    ELSE IF api = "get_resource" THEN ReadResponses
    ELSE ProgressResponses

\* the result for a missing ProgressEvent (lines 148-155, 293-301, 341-349)
InvalidResponseResult(operation, a) ==
    [OperationResult("error", operation, a.resource_type) EXCEPT
        !.identifier = IF operation = "create" THEN NoneValue
                       ELSE a.identifier,
        !.error = Some(<<"Invalid response from AWS Cloud Control API">>)]

\* a create handler that reports success whatever the token is
HandleCreateAnyToken(a, resp) ==
    IF "ProgressEvent" \notin resp.keys
    THEN Return(InvalidResponseResult("create", a))
    ELSE Return([OperationResult("success", "create", a.resource_type) EXCEPT
                    !.message = Some(<<"Creating ", a.resource_type, "...">>)])

\* lines 146-172
HandleCreate(a, resp) ==
    IF "ProgressEvent" \notin resp.keys
    THEN Return(InvalidResponseResult("create", a))
    ELSE IF EmptyString(Opt(resp.RequestToken))
    THEN Return([OperationResult("error", "create", a.resource_type) EXCEPT
                    !.error = Some(<<"No request token received from AWS">>)])
    ELSE Return([OperationResult("success", "create", a.resource_type) EXCEPT
                    !.request_token = Some(resp.RequestToken),
                    !.message = Some(<<"Creating ", a.resource_type, "...">>)])

\* line 203
DescriptionsOf(resp) ==
    IF resp.ResourceDescriptions = NoneValue THEN <<>>
    ELSE resp.ResourceDescriptions.some

\* r.get("Properties", "{}")
PropertiesDoc(r) ==
    IF r.Properties = NoneValue THEN ObjectDoc(<<>>) ELSE r.Properties.some

\* lines 201-216
HandleList(a, resp) ==
    LET resources == DescriptionsOf(resp)
    IN  IF \A k \in 1..Len(resources) : Parses(PropertiesDoc(resources[k]))
        THEN Return([OperationResult("success", "list", a.resource_type)
                     EXCEPT
                        !.count = Some(Len(resources)),
                        !.resources =
                            Some([k \in 1..Len(resources) |->
                                     JsonLoads(PropertiesDoc(resources[k]))]),
                        !.next_token = Opt(resp.NextToken),
                        !.message =
                            Some(<<"Retrieved resources">>
                                 \o IF EmptyString(Opt(resp.NextToken))
                                    THEN <<>>
                                    ELSE <<" (more available)">>)])
        ELSE Raise("JSONDecodeError")

\* lines 243-251
HandleRead(a, resp) ==
    IF "ResourceDescription" \notin resp.keys THEN Raise("KeyError")
    ELSE IF Parses(resp.Properties)
    THEN Return([OperationResult("success", "read", a.resource_type) EXCEPT
                    !.identifier = a.identifier,
                    !.properties = Some(JsonLoads(resp.Properties))])
    ELSE Raise("JSONDecodeError")

\* lines 291-312 and 339-360
HandleProgress(operation, a, resp) ==
    IF "ProgressEvent" \notin resp.keys
    THEN Return(InvalidResponseResult(operation, a))
    ELSE Return([OperationResult("success", operation, a.resource_type) EXCEPT
                    !.identifier = a.identifier,
                    !.request_token = Opt(resp.RequestToken),
                    !.message = Some(<<operation, a.resource_type,
                                       a.identifier.some, "...">>)])

\* what the handler of the call makes of the provider's response
HandleResponse(a, resp) ==
    IF a.operation = "create" THEN HandleCreate(a, resp)
    ELSE IF a.operation = "list" THEN HandleList(a, resp)
    ELSE IF a.operation = "read" THEN HandleRead(a, resp)
    ELSE HandleProgress(a.operation, a, resp)

\* the exceptions that the clause `except ValueError` of line 573 catches
ValueErrors == {"ValidationError", "JSONDecodeError"}

\* lines 574-579
ValidationErrorResult(ti, e) ==
    [OperationResult("error", Get(ti.operation, "unknown"),
                     Get(ti.resource_type, "unknown")) EXCEPT
        !.error = Some(<<"Validation error: ", e>>)]

\* the OperationResult constructor accepts the fields of res
Constructible(res) == res.operation \in AWSOperation

\* the ways a piece of the call ends: a result is kept and, under the
\* dispatcher, narrated; a ValueError raised under the dispatcher is turned
\* into a validation result (lines 573-580), which is itself raised out of
\* the except clause when its operation is not of the enum; any other
\* exception reaches the caller
Conclude(outcome) ==
    IF outcome.kind = "return"
    THEN /\ op_result' = outcome.value
         /\ tool_result' = IF entry = "dispatcher" THEN outcome.value
                           ELSE tool_result
         /\ epc' = IF entry = "dispatcher" THEN "narrate" ELSE "returned"
    ELSE IF /\ entry = "dispatcher"
            /\ outcome.value \in ValueErrors
            /\ Constructible(ValidationErrorResult(tool_input, outcome.value))
    THEN /\ op_result' = ValidationErrorResult(tool_input, outcome.value)
         /\ tool_result' = ValidationErrorResult(tool_input, outcome.value)
         /\ epc' = "narrate"
    ELSE /\ op_result' = op_result
         /\ tool_result' = tool_result
         /\ epc' = "raised"

\* the argument mappings the model may emit for the log-query tool
LogInputs == [function_name : {"checkout", "absent"}, hours_back : {1, 24}]

\* lines 454-459
LogCall(ti) ==
    [api           |-> "filter_log_events",
     logGroupName  |-> "/aws/lambda/" \o ti.function_name,
     hours_back    |-> ti.hours_back,
     filterPattern |-> "ERROR"]

\* the k-th matching event of a log group
Event(k) ==
    [timestamp |-> k, message |-> "ERROR", logStreamName |-> "stream"]

\* responses of filter_log_events: no events key, or up to MaxEvents events
\* in ascending or descending order of timestamp
LogResponses ==
    {[events |-> NoneValue]}
    \cup {[events |-> Some([k \in 1..n |-> Event(k)])] : n \in 0..MaxEvents}
    \cup {[events |-> Some([k \in 1..n |-> Event(n + 1 - k)])] :
             n \in 0..MaxEvents}

\* datetime.fromtimestamp(ts / 1000).isoformat()
IsoFormat(ts) == [iso |-> ts]

\* seq[:n]
Take(seq, n) == [k \in 1..Min(Len(seq), n) |-> seq[k]]

\* lines 462-469
ErrorLogs(resp) ==
    LET events == IF resp.events = NoneValue THEN <<>> ELSE resp.events.some
    IN  [k \in 1..Len(events) |->
            [timestamp     |-> IsoFormat(events[k].timestamp),
             message       |-> events[k].message,
             logStreamName |-> events[k].logStreamName]]

\* lines 471-477
LogSuccessResult(ti, resp) ==
    [status        |-> "success",
     function_name |-> ti.function_name,
     hours_back    |-> Some(ti.hours_back),
     error_count   |-> Some(Len(ErrorLogs(resp))),
     error_logs    |-> Some(Take(ErrorLogs(resp), LogLimit)),
     error         |-> NoneValue]

\* lines 479-485
LogErrorResult(ti, fault) ==
    [status        |-> "error",
     function_name |-> ti.function_name,
     hours_back    |-> NoneValue,
     error_count   |-> NoneValue,
     error_logs    |-> NoneValue,
     error         |-> Some(<<ErrorMessage(fault)>>)]

\* line 588
UnknownToolError(name) == [error |-> Some(<<"Unknown tool: ", name>>)]
UnknownToolText(name) == <<"\n\nError: Unknown tool '", name, "'">>

\* outcomes of a text-generation call
GenerationOutcomes == {"ok"} \cup GenerationFaults

\* a diagnosis that lets the generation fault through
DiagnosisRaising(res, gen) ==
    IF gen = "ok" THEN Return(<<"generated diagnosis">>)
    ELSE Raise(gen)

\* _diagnose_error, lines 506-523: error_message is the result's error text
Diagnosis(res, gen) ==
    IF gen = "ok" THEN Return(<<"generated diagnosis">>)
    ELSE Return(<<"Error: ">> \o res.error.some)

\* a narration that summarises whatever the status is
NarrationPathSummaryOnly(res) == "summary"

\* line 527
NarrationPath(res) == IF res.status = "error" THEN "diagnosis" ELSE "summary"

\* _generate_summary, lines 525-553
Narration(res, gen) ==
    IF NarrationPath(res) = "diagnosis" THEN Diagnosis(res, gen)
    ELSE IF gen = "ok" THEN Return(<<"generated summary">>)
    ELSE Raise("ToolExecutionError")

\* lines 582 and 587: the text returned with the result
FormatText(name, summary) ==
    IF name = "cloudwatch_logs"
    THEN <<"\n\nCloudWatch Logs Result:\n", "json.dumps(result)",
           "\n\nAI Summary:\n">> \o summary
    ELSE <<"\n\nAI Summary:\n">> \o summary

ExecInit ==
    /\ LoopIdle
    /\ PollIdle
    /\ ProcIdle
    /\ entry \in {"executor", "dispatcher"}
    /\ IF entry = "dispatcher"
       THEN /\ epc = "dispatch"
            /\ tool_name \in ToolNames
            /\ IF tool_name = "aws_cloud_control"
               THEN tool_input \in ToolInputs
               ELSE tool_input \in LogInputs
            /\ args = NoArgs
       ELSE /\ epc = "execute"
            /\ tool_name = "none"
            /\ tool_input = NoToolInput
            /\ args \in ExecutorArgs
    /\ provider_calls = <<>>
    /\ provider_answer = NoAnswer
    /\ op_result = NoOpResult
    /\ narration = "none"
    /\ tool_result = NoToolResult
    /\ tool_text = <<>>
    /\ log_calls = <<>>
    /\ generation_calls = 0
    /\ generation_outcome = "none"

\* lines 561-572: AWSResourceInput(**tool_input)
DispatchValidate ==
    /\ epc = "dispatch"
    /\ tool_name = "aws_cloud_control"
    /\ IF Validates(tool_input)
       THEN /\ args' = Validated(tool_input)
            /\ epc' = "execute"
            /\ op_result' = op_result
            /\ tool_result' = tool_result
       ELSE /\ args' = args
            /\ Conclude(Raise("ValidationError"))
    /\ UNCHANGED <<entry, tool_input, provider_calls, provider_answer,
                   narration, tool_name, tool_text, log_calls,
                   generation_calls, generation_outcome>>
    /\ UNCHANGED loopVars
    /\ UNCHANGED pollVars
    /\ UNCHANGED procVars

\* lines 82-119, up to the provider call of the handler chosen
ExecCall ==
    /\ epc = "execute"
    /\ LET step == ExecuteAwsOperation(args)
       IN  IF step.kind = "call"
           THEN /\ provider_calls' = Append(provider_calls, step.value)
                /\ epc' = "provider"
                /\ op_result' = op_result
                /\ tool_result' = tool_result
           ELSE /\ provider_calls' = provider_calls
                /\ Conclude(step)
    /\ UNCHANGED <<entry, tool_input, args, provider_answer, narration,
                   tool_name, tool_text, log_calls, generation_calls,
                   generation_outcome>>
    /\ UNCHANGED loopVars
    /\ UNCHANGED pollVars
    /\ UNCHANGED procVars

\* the provider answers the call: the rest of the handler's try block
ProviderResponds ==
    /\ epc = "provider"
    /\ \E resp \in Responses(provider_calls[Len(provider_calls)].api) :
          /\ provider_answer' = [kind |-> "response", value |-> resp]
          /\ Conclude(HandleResponse(args, resp))
    /\ UNCHANGED <<entry, tool_input, args, provider_calls, narration,
                   tool_name, tool_text, log_calls, generation_calls,
                   generation_outcome>>
    /\ UNCHANGED loopVars
    /\ UNCHANGED pollVars
    /\ UNCHANGED procVars

\* the provider call raises: the except ClientError clause of the handler
\* for a ClientError, no clause for anything else
ProviderFault ==
    /\ epc = "provider"
    /\ \E fault \in ProviderFaults :
          /\ provider_answer' = [kind |-> "fault", value |-> fault]
          /\ IF fault.type = "ClientError"
             THEN Conclude(Return(ClientErrorResult(args.operation, args,
                                                    fault)))
             ELSE Conclude(Raise(fault.type))
    /\ UNCHANGED <<entry, tool_input, args, provider_calls, narration,
                   tool_name, tool_text, log_calls, generation_calls,
                   generation_outcome>>
    /\ UNCHANGED loopVars
    /\ UNCHANGED pollVars
    /\ UNCHANGED procVars

\* lines 584-585 and 444-459: _query_cloudwatch_logs(**tool_input) up to the
\* provider call; a mapping without function_name is a TypeError
DispatchLogQuery ==
    /\ epc = "dispatch"
    /\ tool_name = "cloudwatch_logs"
    /\ IF tool_input.function_name = "absent"
       THEN /\ epc' = "raised"
            /\ log_calls' = log_calls
       ELSE /\ epc' = "logs"
            /\ log_calls' = Append(log_calls, LogCall(tool_input))
    /\ UNCHANGED <<entry, tool_input, args, provider_calls, provider_answer,
                   op_result, narration, tool_name, tool_result, tool_text,
                   generation_calls, generation_outcome>>
    /\ UNCHANGED loopVars
    /\ UNCHANGED pollVars
    /\ UNCHANGED procVars

\* lines 461-477: the log provider answers
LogResponds ==
    /\ epc = "logs"
    /\ \E resp \in LogResponses :
          /\ provider_answer' = [kind |-> "response", value |-> resp]
          /\ tool_result' = LogSuccessResult(tool_input, resp)
    /\ epc' = "narrate"
    /\ UNCHANGED <<entry, tool_input, args, provider_calls, op_result,
                   narration, tool_name, tool_text, log_calls,
                   generation_calls, generation_outcome>>
    /\ UNCHANGED loopVars
    /\ UNCHANGED pollVars
    /\ UNCHANGED procVars

\* lines 479-485: the log provider call raises
LogFault ==
    /\ epc = "logs"
    /\ \E fault \in ProviderFaults :
          /\ provider_answer' = [kind |-> "fault", value |-> fault]
          /\ IF fault.type = "ClientError"
             THEN /\ tool_result' = LogErrorResult(tool_input, fault)
                  /\ epc' = "narrate"
             ELSE /\ tool_result' = tool_result
                  /\ epc' = "raised"
    /\ UNCHANGED <<entry, tool_input, args, provider_calls, op_result,
                   narration, tool_name, tool_text, log_calls,
                   generation_calls, generation_outcome>>
    /\ UNCHANGED loopVars
    /\ UNCHANGED pollVars
    /\ UNCHANGED procVars

\* an unknown-tool branch that asks for a narration of its error
DispatchUnknownNarrated ==
    /\ epc = "dispatch"
    /\ tool_name \notin {"aws_cloud_control", "cloudwatch_logs"}
    /\ tool_result' = UnknownToolError(tool_name)
    /\ tool_text' = UnknownToolText(tool_name)
    /\ generation_calls' = generation_calls + 1
    /\ epc' = "returned"
    /\ UNCHANGED <<entry, tool_input, args, provider_calls, provider_answer,
                   op_result, narration, tool_name, log_calls,
                   generation_outcome>>
    /\ UNCHANGED loopVars
    /\ UNCHANGED pollVars
    /\ UNCHANGED procVars

\* line 588
DispatchUnknown ==
    /\ epc = "dispatch"
    /\ tool_name \notin {"aws_cloud_control", "cloudwatch_logs"}
    /\ tool_result' = UnknownToolError(tool_name)
    /\ tool_text' = UnknownToolText(tool_name)
    /\ epc' = "returned"
    /\ UNCHANGED <<entry, tool_input, args, provider_calls, provider_answer,
                   op_result, narration, tool_name, log_calls,
                   generation_calls, generation_outcome>>
    /\ UNCHANGED loopVars
    /\ UNCHANGED pollVars
    /\ UNCHANGED procVars

\* lines 581-582, 586-587 and 525-553: one narration of the result; the
\* diagnosis of an error result falls back on the error text when generation
\* fails, the summary of a success raises ToolExecutionError
DispatchNarrate ==
    /\ epc = "narrate"
    /\ \E gen \in GenerationOutcomes :
          LET outcome == Narration(tool_result, gen)
          IN  /\ narration' = NarrationPath(tool_result)
              /\ generation_calls' = generation_calls + 1
              /\ generation_outcome' = gen
              /\ IF outcome.kind = "return"
                 THEN /\ tool_text' = FormatText(tool_name, outcome.value)
                      /\ epc' = "returned"
                 ELSE /\ tool_text' = tool_text
                      /\ epc' = "raised"
    /\ UNCHANGED <<entry, tool_input, args, provider_calls, provider_answer,
                   op_result, tool_name, tool_result, log_calls>>
    /\ UNCHANGED loopVars
    /\ UNCHANGED pollVars
    /\ UNCHANGED procVars

ExecNext ==
    \/ DispatchValidate
    \/ ExecCall
    \/ ProviderResponds
    \/ ProviderFault
    \/ DispatchLogQuery
    \/ LogResponds
    \/ LogFault
    \/ DispatchUnknown
    \/ DispatchNarrate

ExecSpec == ExecInit /\ [][ExecNext]_vars

----------------------------------------------------------------------------
\* The request threads of the process: get_agent (processor.py), the
\* constructor with its connection test (agent.py 42-55, config.py 33-51)
\* and _format_tools (agent.py 61-69).  /chat is a plain `def` endpoint, so
\* requests run on the threads of a pool and their steps interleave.

\* how the identity call of validate_connection may end
IdentityOutcomes ==
    {"ok", "NoCredentialsError", "ClientError", "EndpointConnectionError"}

\* a connection test that reports a client error by returning False
ValidateConnectionOrFalse(identity) ==
    IF identity = "ok" THEN "True"
    ELSE IF identity = "NoCredentialsError" THEN "AWSConnectionError"
    ELSE IF identity = "ClientError" THEN "False"
    ELSE identity

\* config.py lines 39-51: "True" for the returned value, otherwise the
\* exception raised
ValidateConnection(identity) ==
    IF identity = "ok" THEN "True"
    ELSE IF identity \in {"NoCredentialsError", "ClientError"}
    THEN "AWSConnectionError"
    ELSE identity

\* agent.py lines 42-55: the constructor completes
Constructs(outcome) == outcome = "True"

ProcInit ==
    /\ LoopIdle
    /\ PollIdle
    /\ ExecIdle
    /\ tpc = [t \in Threads |-> "idle"]
    /\ requests = [t \in Threads |-> 0]
    /\ cache = 0
    /\ instances = 0
    /\ connection = [t \in Threads |-> NoConnection]
    /\ made = [t \in Threads |-> 0]
    /\ agents_returned = {}
    /\ tools = 0
    /\ file_reads = 0
    /\ loaded = [t \in Threads |-> 0]
    /\ tools_returned = {}

\* processor.py line 16: a request reaches get_agent()
RequestStart(t) ==
    /\ tpc[t] = "idle"
    /\ requests[t] < MaxRequests
    /\ tpc' = [tpc EXCEPT ![t] = "lookup"]
    /\ connection' = [connection EXCEPT ![t] = NoConnection]
    /\ made' = [made EXCEPT ![t] = 0]
    /\ UNCHANGED <<requests, cache, instances, agents_returned, tools,
                   file_reads, loaded, tools_returned>>
    /\ UNCHANGED loopVars
    /\ UNCHANGED pollVars
    /\ UNCHANGED execVars

\* lru_cache wrapper: the lookup; a hit returns the cached agent
GetAgentLookup(t) ==
    /\ tpc[t] = "lookup"
    /\ IF cache # 0
       THEN /\ agents_returned' = agents_returned \cup {cache}
            /\ tpc' = [tpc EXCEPT ![t] = "format_tools"]
       ELSE /\ agents_returned' = agents_returned
            /\ tpc' = [tpc EXCEPT ![t] = "construct"]
    /\ UNCHANGED <<requests, cache, instances, connection, made, tools,
                   file_reads, loaded, tools_returned>>
    /\ UNCHANGED loopVars
    /\ UNCHANGED pollVars
    /\ UNCHANGED execVars

\* processor.py line 11, agent.py 42-55: on a miss the wrapper calls
\* AWSAgenticAgent() outside any lock; an exception leaves the wrapper and
\* the request, and nothing is cached
GetAgentConstruct(t) ==
    /\ tpc[t] = "construct"
    /\ \E identity \in IdentityOutcomes :
          LET outcome == ValidateConnection(identity)
          IN  /\ connection' = [connection EXCEPT
                                   ![t] = [identity |-> identity,
                                           result   |-> outcome]]
              /\ IF Constructs(outcome)
                 THEN /\ instances' = instances + 1
                      /\ made' = [made EXCEPT ![t] = instances + 1]
                      /\ tpc' = [tpc EXCEPT ![t] = "store"]
                      /\ requests' = requests
                 ELSE /\ instances' = instances
                      /\ made' = made
                      /\ tpc' = [tpc EXCEPT ![t] = "idle"]
                      /\ requests' = [requests EXCEPT ![t] = @ + 1]
    /\ UNCHANGED <<cache, agents_returned, tools, file_reads, loaded,
                   tools_returned>>
    /\ UNCHANGED loopVars
    /\ UNCHANGED pollVars
    /\ UNCHANGED execVars

\* lru_cache wrapper after the call: the result is stored unless the key was
\* added during the call, and this call's own result is returned
GetAgentStore(t) ==
    /\ tpc[t] = "store"
    /\ cache' = IF cache = 0 THEN made[t] ELSE cache
    /\ agents_returned' = agents_returned \cup {made[t]}
    /\ tpc' = [tpc EXCEPT ![t] = "format_tools"]
    /\ UNCHANGED <<requests, instances, connection, made, tools, file_reads,
                   loaded, tools_returned>>
    /\ UNCHANGED loopVars
    /\ UNCHANGED pollVars
    /\ UNCHANGED execVars

\* agent.py line 63: the test of the class attribute
FormatToolsCheck(t) ==
    /\ tpc[t] = "format_tools"
    /\ tpc' = [tpc EXCEPT ![t] = IF tools # 0 THEN "return_tools"
                                 ELSE "read_tools"]
    /\ UNCHANGED <<requests, cache, instances, connection, made,
                   agents_returned, tools, file_reads, loaded, tools_returned>>
    /\ UNCHANGED loopVars
    /\ UNCHANGED pollVars
    /\ UNCHANGED execVars

\* lines 66-67, right-hand side: the file is read and parsed into a new object
FormatToolsRead(t) ==
    /\ tpc[t] = "read_tools"
    /\ file_reads' = file_reads + 1
    /\ loaded' = [loaded EXCEPT ![t] = file_reads + 1]
    /\ tpc' = [tpc EXCEPT ![t] = "assign_tools"]
    /\ UNCHANGED <<requests, cache, instances, connection, made,
                   agents_returned, tools, tools_returned>>
    /\ UNCHANGED loopVars
    /\ UNCHANGED pollVars
    /\ UNCHANGED execVars

\* line 67: the assignment to the class attribute
FormatToolsAssign(t) ==
    /\ tpc[t] = "assign_tools"
    /\ tools' = loaded[t]
    /\ tpc' = [tpc EXCEPT ![t] = "return_tools"]
    /\ UNCHANGED <<requests, cache, instances, connection, made,
                   agents_returned, file_reads, loaded, tools_returned>>
    /\ UNCHANGED loopVars
    /\ UNCHANGED pollVars
    /\ UNCHANGED execVars

\* lines 64 and 69: the class attribute is read again and returned; the
\* request ends and its locals go out of scope
FormatToolsReturn(t) ==
    /\ tpc[t] = "return_tools"
    /\ tools_returned' = tools_returned \cup {tools}
    /\ tpc' = [tpc EXCEPT ![t] = "idle"]
    /\ requests' = [requests EXCEPT ![t] = @ + 1]
    /\ connection' = [connection EXCEPT ![t] = NoConnection]
    /\ made' = [made EXCEPT ![t] = 0]
    /\ loaded' = [loaded EXCEPT ![t] = 0]
    /\ UNCHANGED <<cache, instances, agents_returned, tools, file_reads>>
    /\ UNCHANGED loopVars
    /\ UNCHANGED pollVars
    /\ UNCHANGED execVars

ProcNext ==
    \E t \in Threads :
        \/ RequestStart(t)
        \/ GetAgentLookup(t)
        \/ GetAgentConstruct(t)
        \/ GetAgentStore(t)
        \/ FormatToolsCheck(t)
        \/ FormatToolsRead(t)
        \/ FormatToolsAssign(t)
        \/ FormatToolsReturn(t)

ProcSpec == ProcInit /\ [][ProcNext]_vars

\* fairness: the request's single thread keeps running until it has returned
FairSpec == Spec /\ WF_vars(Next)

\* ------------------------------------------------------------ observations
IsPrefix(a, b) == Len(a) <= Len(b) /\ SubSeq(b, 1, Len(a)) = a

\* the turns process_request has appended so far
Appended == SubSeq(history, Len(history0) + 1, Len(history))

IsToolUse(seg) == seg.type = "tool_use"
IsTextSeg(seg) == seg.type = "text"

IsAssistantList(t) == t.role = "assistant" /\ t.content.ctype = "list"

\* the call ids of the tool-call segments of a turn, in order
CallIds(t) ==
    LET calls == SelectSeq(t.content.items, IsToolUse)
    IN  [k \in 1..Len(calls) |-> calls[k].id]

\* a user-role turn made of tool-result entries only
IsToolResultTurn(t) ==
    /\ t.role = "user"
    /\ t.content.ctype = "list"
    /\ \A k \in 1..Len(t.content.items) : t.content.items[k].type = "tool_result"

ResultIds(t) == [k \in 1..Len(t.content.items) |-> t.content.items[k].tool_use_id]

Contains(text, part) ==
    \E i \in 1..(Len(text) + 1) :
        /\ i + Len(part) - 1 <= Len(text)
        /\ SubSeq(text, i, i + Len(part) - 1) = part

StartsWithError(text) == Len(text) >= 1 /\ text[1].kind = "Error:"

IsNoteTok(tok) == tok.kind = "note"
HasNote(text) == SelectSeq(text, IsNoteTok) # <<>>

Terminated == pc \in {"returned", "raised"}
\* process_request returned through line 684
NormalReturn == pc = "returned" /\ ~StartsWithError(result.value)
\* process_request returned through lines 686-693
FaultReturn == pc = "returned" /\ StartsWithError(result.value)

\* the text segments a list of segments records, in order
TextsOf(items) ==
    LET segs == SelectSeq(items, IsTextSeg)
    IN  [k \in 1..Len(segs) |-> segs[k].text]

\* the text segments recorded in the assistant turns of h, in order
RECURSIVE RecordedTexts(_)
RecordedTexts(h) ==
    IF h = <<>> THEN <<>>
    ELSE LET t == h[Len(h)]
         IN  RecordedTexts(SubSeq(h, 1, Len(h) - 1))
             \o (IF IsAssistantList(t) THEN TextsOf(t.content.items) ELSE <<>>)

\* the tool-call segments recorded in the assistant turns of h
RECURSIVE RecordedCalls(_)
RecordedCalls(h) ==
    IF h = <<>> THEN 0
    ELSE LET t == h[Len(h)]
         IN  RecordedCalls(SubSeq(h, 1, Len(h) - 1))
             + (IF IsAssistantList(t) THEN Len(CallIds(t)) ELSE 0)

AssistantTurns(h) == Cardinality({i \in DOMAIN h : IsAssistantList(h[i])})

IsTextTok(tok) == tok.kind = "text"
IsNarrationTok(tok) ==
    tok.kind \in {"summary", "diagnosis", "raw_error", "unknown_tool"}

\* ------------------------------------------------------------------ claims

\* C1: every assistant turn of the history that holds N >= 1 tool-call
\* segments is immediately followed by one user-role turn of exactly N
\* tool-result entries whose tool_use_id values are the call ids of that
\* assistant turn, each once and in issuing order.
C1_ToolResultsFollowCalls ==
    \A i \in (Len(history0) + 1)..Len(history) :
        (IsAssistantList(history[i]) /\ Len(CallIds(history[i])) >= 1) =>
            /\ i + 1 <= Len(history)
            /\ IsToolResultTurn(history[i + 1])
            /\ ResultIds(history[i + 1]) = CallIds(history[i])

C1_Witness ==
    \E i \in (Len(history0) + 1)..Len(history) :
        /\ IsAssistantList(history[i])
        /\ Len(CallIds(history[i])) >= 2
        /\ Len(history[i].content.items) >= 2

\* C2: process_request never raises to its caller.
C2_NeverRaises == pc # "raised" /\ result.kind # "exception"

\* C3: when the loop's own generation call fails in iteration k, the call
\* returns a text starting with "Error:", makes no tool call in that step and
\* none afterwards, and the history is the one of the end of iteration k-1:
\* the user turn, then the turns of the k-1 completed iterations, with every
\* tool call that was made recorded.
C3_GenFaultAborts ==
    /\ [][(result.kind = "none" /\ result'.kind = "text"
             /\ StartsWithError(result'.value))
          => (/\ history' = history
              /\ tool_calls' = tool_calls
              /\ gen_calls' = gen_calls + 1
              /\ pc' = "returned")]_vars
    /\ [](FaultReturn =>
            /\ ~ENABLED Next
            /\ Len(history) > Len(history0)
            /\ history[Len(history0) + 1] = Turn("user", StrContent(user_input))
            /\ AssistantTurns(Appended) = gen_calls - 1
            /\ RecordedCalls(Appended) = tool_calls)

C3_Witness ==
    /\ FaultReturn
    /\ gen_calls = 2
    /\ tool_calls >= 1

\* the loop was left through one of the breaks of lines 672-678
NaturalStop == gen_calls > 0 /\ response.stop_reason # "tool_use"

\* C4: the returned text carries the note exactly when the iteration budget
\* was exhausted without a natural stop; a loop ended by end_turn or another
\* stop reason than tool_use, in any iteration, returns without the note.
C4_NoteIffBudgetExhausted ==
    NormalReturn => (HasNote(result.value) <=> ~NaturalStop)

\* C5: with max_iterations = 3 and a model that answers every generation call
\* with one tool call and stop reason tool_use, a call that returns has made
\* exactly 3 generation calls, its text carries the note, and the history has
\* grown by exactly 7 turns: the user turn, then 3 pairs of an assistant turn
\* and a tool-result turn.
C5_BudgetScenario ==
    pc = "returned" =>
        /\ gen_calls = 3
        /\ HasNote(result.value)
        /\ Len(history) = Len(history0) + 7
        /\ history[Len(history0) + 1] = Turn("user", StrContent(user_input))
        /\ \A k \in 1..3 :
              /\ IsAssistantList(history[Len(history0) + 2 * k])
              /\ Len(CallIds(history[Len(history0) + 2 * k])) = 1
              /\ IsToolResultTurn(history[Len(history0) + 2 * k + 1])

C5_Witness ==
    /\ pc = "returned"
    /\ history0 = <<>>
    /\ Len(history) = 7
    /\ tool_calls = 3

\* C6: the returned text holds, in order, the text segments of every iteration
\* that ran and one narration per tool call made.
C6_ReturnAccumulates ==
    NormalReturn =>
        /\ SelectSeq(result.value, IsTextTok) = RecordedTexts(Appended)
        /\ Len(SelectSeq(result.value, IsNarrationTok)) = tool_calls

\* C7: the history only grows at its end: the caller's turns stay a prefix,
\* the first appended turn is the user turn with the incoming message, and
\* every step keeps the turns already there, on every exit.
C7_AppendOnly ==
    /\ [](/\ IsPrefix(history0, history)
          /\ (pc # "start" =>
                /\ Len(history) > Len(history0)
                /\ history[Len(history0) + 1] = Turn("user", StrContent(user_input))))
    /\ [][IsPrefix(history, history')]_vars

C7_Witness ==
    /\ Terminated
    /\ history0 # <<>>
    /\ Len(history) >= Len(history0) + 3

\* C8: generation call i+1 is issued only if fewer than max_iterations calls
\* were made and response i had stop reason tool_use; any other stop reason
\* ends the loop once the response's segments are processed; so at most
\* max_iterations generation calls are made and the call always comes back
\* to its caller.
C8_BoundedLoop ==
    /\ [][gen_calls' # gen_calls =>
            /\ gen_calls' = gen_calls + 1
            /\ gen_calls < max_iterations
            /\ (gen_calls > 0 => response.stop_reason = "tool_use")]_vars
    /\ [][(pc = "blocks" /\ pc' \in {"loop", "after"}) =>
            /\ block > Len(response.content)
            /\ (pc' = "after" <=> response.stop_reason # "tool_use")]_vars
    /\ [](gen_calls <= max_iterations)
    /\ <>Terminated

C8_Witness ==
    /\ pc = "returned"
    /\ max_iterations = 2
    /\ gen_calls = 2
    /\ response.stop_reason = "tool_use"

OnlyText(content) == \A k \in 1..Len(content) : content[k].type = "text"
\* the texts of the blocks of the first response, concatenated
ResponseTexts == [k \in 1..Len(response.content) |-> Tok("text", 1, k)]

\* C9: a request whose single response holds only text segments and does not
\* ask to continue with tool use grows the history by exactly two turns (the
\* user turn, then one assistant turn recording the text segments), makes no
\* dispatcher call and returns a text containing the concatenated segments.
C9_TextOnlyRequest ==
    (/\ NormalReturn
     /\ gen_calls = 1
     /\ OnlyText(response.content)
     /\ response.stop_reason # "tool_use")
    => /\ Len(history) = Len(history0) + 2
       /\ history[Len(history0) + 1] = Turn("user", StrContent(user_input))
       /\ IsAssistantList(history[Len(history0) + 2])
       /\ TextsOf(history[Len(history0) + 2].content.items) = ResponseTexts
       /\ Len(history[Len(history0) + 2].content.items) = Len(response.content)
       /\ tool_calls = 0
       /\ Contains(result.value, ResponseTexts)

C9_Witness ==
    /\ NormalReturn
    /\ gen_calls = 1
    /\ Len(response.content) = 2
    /\ OnlyText(response.content)
    /\ response.stop_reason = "end_turn"

\* C10: every call of the poller returns after finitely many status queries
\* and sleeps, for every max_wait_seconds and non-negative initial_delay (a
\* terminal status or a provider fault ends the call at that query, so the
\* runs that matter are those of a provider that never reports one).
C10_PollerReturns == <>(ppc = "returned")

----------------------------------------------------------------------------
\* Observations of one poller call.

\* the call has returned from the statement after the loop (line 436): the
\* returns inside the loop happen with the loop condition true and leave
\* elapsed unchanged
TimedOut == ppc = "returned" /\ ~PollGuard(elapsed, max_wait_seconds)

\* the provider has answered every query with a non-terminal status
NeverTerminal ==
    /\ client_error = NoError
    /\ StatusOf(progress_event) \notin TerminalStatuses

\* C11: a status query that observes a terminal status makes the poller
\* return at that step with exactly that status and the provider's
\* identifier, status message and error code, without a sleep after the
\* query; when that query is the first one of the call, the call ends with one
\* status query and no sleep.
C11_TerminalReturnsAtOnce ==
    [][(ppc = "test" /\ StatusOf(progress_event') \in TerminalStatuses)
       => /\ ppc' = "returned"
          /\ progress'.operation_status = progress_event'.OperationStatus
          /\ progress'.identifier = Get(progress_event'.Identifier, "None")
          /\ progress'.status_message =
                 Get(progress_event'.StatusMessage, "None")
          /\ progress'.error_code = Get(progress_event'.ErrorCode, "None")
          /\ sleeps' = sleeps
          /\ slept' = slept
          /\ (queries = 0 => queries' = 1 /\ sleeps' = 0)]_vars

C11_Witness ==
    /\ ppc = "returned"
    /\ progress.operation_status = "CANCEL_COMPLETE"
    /\ progress.identifier = "bucket-1"
    /\ queries = 1
    /\ sleeps = 0

\* C12: within one call the delays slept never decrease and none of them
\* exceeds the 30 second ceiling, whatever initial_delay is.
C12_DelaysNonDecreasingUnderCeiling ==
    \A k \in 1..Len(slept) :
        /\ slept[k] <= MaxDelayTicks
        /\ k > 1 => slept[k - 1] <= slept[k]

\* C13 (as stated): a call that exhausts its budget returns IN_PROGRESS with
\* retry_after equal to the last computed delay.
C13_RetryAfterEqualsDelay ==
    TimedOut
    => /\ progress.operation_status = "IN_PROGRESS"
       /\ progress.retry_after * TicksPerSecond = delay

\* C13: a call that exhausts its budget without a terminal status and
\* without a provider fault returns IN_PROGRESS, never FAILED, and its
\* retry_after is the last computed delay truncated to whole seconds.
C13_RetryAfterIsTruncatedDelay ==
    TimedOut
    => /\ NeverTerminal
       /\ progress.operation_status = "IN_PROGRESS"
       /\ progress.retry_after * TicksPerSecond <= delay
       /\ delay < (progress.retry_after + 1) * TicksPerSecond

C13_Witness ==
    /\ TimedOut
    /\ sleeps = 2
    /\ delay % TicksPerSecond # 0
    /\ progress.retry_after = 4

\* C14: with max_wait_seconds = 5 and initial_delay = 10 against an operation
\* that is not terminal, the call returns without sleeping, with IN_PROGRESS
\* and retry_after = 10, after at most one status query.
C14_BudgetBelowDelayScenario ==
    (/\ ppc = "returned"
     /\ max_wait_seconds = 5
     /\ initial_delay = Seconds(10)
     /\ NeverTerminal)
    => /\ progress.operation_status = "IN_PROGRESS"
       /\ progress.retry_after = 10
       /\ sleeps = 0
       /\ queries <= 1

C16_RetryAfterIffTimedOut ==
    ppc = "returned" => (progress.retry_after # -1 <=> TimedOut)

C16_Witness ==
    /\ TimedOut
    /\ progress.retry_after = 1
    /\ queries = 2

----------------------------------------------------------------------------
\* Observations of one executor or dispatcher call.

\* _execute_aws_operation has been called and has ended
Executed == args # NoArgs /\ epc \in {"narrate", "returned", "raised"}

\* an OperationResult has been produced
Produced == op_result.status # "none"

\* the provider answered the call with a response (not a fault)
Responded == provider_answer.kind = "response"

\* a text that is a non-empty string
NonEmptyText(v) ==
    IF v = NoneValue THEN FALSE ELSE \E k \in 1..Len(v.some) : v.some[k] # ""

\* a text with the piece given among its pieces
Mentions(v, piece) ==
    IF v = NoneValue THEN FALSE
    ELSE \E k \in 1..Len(v.some) : v.some[k] = piece

\* C17: a read, update or delete call of the executor whose identifier is
\* absent or empty returns an error result whose message names the operation
\* and mentions "identifier", and no provider operation is invoked.
C17_MissingIdentifierIsError ==
    (/\ Executed
     /\ args.operation \in {"read", "update", "delete"}
     /\ EmptyString(args.identifier))
    => /\ Produced
       /\ op_result.status = "error"
       /\ op_result.operation = args.operation
       /\ Mentions(op_result.error, args.operation)
       /\ Mentions(op_result.error, "identifier")
       /\ provider_calls = <<>>
       /\ provider_answer = NoAnswer

C17_Witness ==
    /\ entry = "executor"
    /\ epc = "returned"
    /\ args.operation = "update"
    /\ args.identifier = Some("")
    /\ args.properties # NoneValue
    /\ op_result.status = "error"

\* C18: a successful list result has count equal to the length of resources,
\* resources holds one parsed mapping per resource description of the
\* provider's response, in the provider's order, and the MaxResults sent to
\* the provider never exceeds 100, whatever max_results was passed.
C18_ListCountAndCap ==
    /\ \A k \in 1..Len(provider_calls) :
          provider_calls[k].api = "list_resources"
          => provider_calls[k].MaxResults <= 100
    /\ (/\ Produced
        /\ op_result.status = "success"
        /\ op_result.operation = "list")
       => /\ Responded
          /\ LET given == provider_answer.value.ResourceDescriptions
                 ds == IF given = NoneValue THEN <<>> ELSE given.some
             IN  /\ op_result.count = Some(Len(op_result.resources.some))
                 /\ Len(op_result.resources.some) = Len(ds)
                 /\ \A k \in 1..Len(ds) :
                       op_result.resources.some[k] =
                           IF ds[k].Properties = NoneValue THEN <<>>
                           ELSE ds[k].Properties.some.members

C18_Witness ==
    /\ entry = "executor"
    /\ epc = "returned"
    /\ args.operation = "list"
    /\ args.max_results = 101
    /\ provider_calls[1].MaxResults = 100
    /\ op_result.status = "success"
    /\ op_result.count = Some(2)
    /\ op_result.resources.some[1] # op_result.resources.some[2]

\* C19: a create call that the provider accepts with request token t returns
\* status success, operation create and request_token t, and the executor
\* makes no provider call besides create_resource (it does not poll).
C19_CreateAccepted ==
    (/\ Executed
     /\ args.operation = "create"
     /\ Responded
     /\ "ProgressEvent" \in provider_answer.value.keys
     /\ provider_answer.value.RequestToken \notin {"absent", ""})
    => /\ op_result.status = "success"
       /\ op_result.operation = "create"
       /\ op_result.request_token = Some(provider_answer.value.RequestToken)
       /\ op_result.error = NoneValue
       /\ Len(provider_calls) = 1
       /\ provider_calls[1].api = "create_resource"

C19_Witness ==
    /\ entry = "executor"
    /\ epc = "returned"
    /\ args.operation = "create"
    /\ args.properties = Some(<<[key |-> "Name", value |-> "a"]>>)
    /\ op_result.status = "success"
    /\ op_result.request_token = Some("tok-1")

\* C20: every OperationResult produced by the executor or by the dispatcher
\* has a non-empty error string when its status is error and no error when
\* its status is success.
C20_ErrorFieldMatchesStatus ==
    Produced
    => /\ op_result.status \in {"success", "error"}
       /\ op_result.status = "error" => NonEmptyText(op_result.error)
       /\ op_result.status = "success" => op_result.error = NoneValue

C20_Witness ==
    /\ entry = "dispatcher"
    /\ epc = "returned"
    /\ op_result.status = "error"
    /\ Mentions(op_result.error, "Validation error: ")
    /\ provider_calls = <<>>

\* C21: a success result of create, update or delete always carries a
\* non-empty request_token; a response without ProgressEvent or without the
\* token gives an error result.
C21_SuccessCarriesToken ==
    (/\ Produced
     /\ op_result.status = "success"
     /\ op_result.operation \in {"create", "update", "delete"})
    => ~EmptyString(op_result.request_token)

\* C22: every failure of a resource-control provider call, for each of the
\* five operations, is caught inside the executor and returned as an error
\* result carrying the provider's diagnostic message; no provider failure
\* leaves _execute_aws_operation as a raised exception.
C22_ProviderFailureIsCaught ==
    provider_answer.kind = "fault"
    => /\ epc # "raised"
       /\ Produced
       /\ op_result.status = "error"
       /\ Mentions(op_result.error, ErrorMessage(provider_answer.value))

\* C23: an update call with an identifier and non-empty properties submits
\* a patch document with exactly one operation per top-level key of
\* properties, each with op "replace", path "/" + key and the key's value;
\* with absent or empty properties it returns an error result and submits
\* nothing to the provider.
C23_UpdatePatchDocument ==
    (/\ args # NoArgs
     /\ epc \notin {"dispatch", "execute"}
     /\ args.operation = "update"
     /\ ~EmptyString(args.identifier))
    => IF EmptyMapping(args.properties)
       THEN /\ Produced
            /\ op_result.status = "error"
            /\ provider_calls = <<>>
       ELSE /\ Len(provider_calls) = 1
            /\ provider_calls[1].api = "update_resource"
            /\ provider_calls[1].Identifier = args.identifier.some
            /\ provider_calls[1].PatchDocument.json = "array"
            /\ LET items == provider_calls[1].PatchDocument.items
                   members == args.properties.some
               IN  /\ Len(items) = Len(members)
                   /\ \A k \in 1..Len(members) :
                         /\ items[k].op = "replace"
                         /\ items[k].path = "/" \o members[k].key
                         /\ items[k].value = members[k].value

C23_Witness ==
    /\ epc = "returned"
    /\ args # NoArgs
    /\ args.operation = "update"
    /\ Len(provider_calls) = 1
    /\ Len(provider_calls[1].PatchDocument.items) = 2
    /\ provider_calls[1].PatchDocument.items[2].path = "/Tags"

\* the pieces of part occur in text, in order and next to each other
Within(text, part) ==
    \E i \in 0..(Len(text) - Len(part)) :
        \A k \in 1..Len(part) : text[i + k] = part[k]

\* dispatch has obtained the result of a recognised tool
ResultObtained ==
    /\ entry = "dispatcher"
    /\ tool_name \in {"aws_cloud_control", "cloudwatch_logs"}
    /\ tool_result # NoToolResult

\* C24: dispatching a tool name outside {aws_cloud_control, cloudwatch_logs}
\* returns the "unknown tool" error and its text, raises nothing and makes
\* no resource-control call, no log-query call and no text-generation call.
C24_UnknownToolInvokesNothing ==
    (/\ entry = "dispatcher"
     /\ tool_name \notin {"aws_cloud_control", "cloudwatch_logs"}
     /\ epc # "dispatch")
    => /\ epc = "returned"
       /\ Mentions(tool_result.error, "Unknown tool: ")
       /\ Mentions(tool_result.error, tool_name)
       /\ Within(tool_text, <<tool_name>>)
       /\ args = NoArgs
       /\ provider_calls = <<>>
       /\ log_calls = <<>>
       /\ generation_calls = 0

C24_Witness ==
    /\ entry = "dispatcher"
    /\ tool_name = "no_such_tool"
    /\ epc = "returned"
    /\ tool_text # <<>>

\* C25: for the resource-control tool, every argument mapping that fails
\* schema validation makes dispatch return an error result carrying the
\* validation message, without raising and without a call to the executor
\* or to the provider.
C25_ValidationFailureIsResult ==
    (/\ entry = "dispatcher"
     /\ tool_name = "aws_cloud_control"
     /\ ~Validates(tool_input)
     /\ epc # "dispatch")
    => /\ epc # "raised"
       /\ tool_result # NoToolResult
       /\ tool_result.status = "error"
       /\ Mentions(tool_result.error, "Validation error: ")
       /\ args = NoArgs
       /\ provider_calls = <<>>

\* C26: once dispatch has the result of a tool's capability call it asks
\* for exactly one narration before it ends, the diagnosis when the result has
\* status error and the summary when it has status success, and no narration
\* is asked for before the capability call has finished.
C26_OneNarrationOfTheRightKind ==
    /\ (ResultObtained /\ epc \in {"returned", "raised"})
       => /\ generation_calls = 1
          /\ narration = IF tool_result.status = "error" THEN "diagnosis"
                         ELSE "summary"
    /\ epc \in {"dispatch", "execute", "provider", "logs", "narrate"}
       => /\ generation_calls = 0
          /\ narration = "none"

C26_Witness ==
    /\ ResultObtained
    /\ tool_name = "cloudwatch_logs"
    /\ epc = "returned"
    /\ tool_result.status = "error"
    /\ narration = "diagnosis"
    /\ generation_outcome = "ok"

\* C27: the narration of an error result never raises: when the
\* text-generation call of the diagnosis fails, the narration is the result's
\* error message as it stands, and dispatch returns its result and text.
C27_DiagnosisNeverRaises ==
    (ResultObtained /\ narration = "diagnosis")
    => /\ epc = "returned"
       /\ tool_text # <<>>
       /\ generation_outcome \in GenerationFaults
          => Within(tool_text, tool_result.error.some)

C27_Witness ==
    /\ ResultObtained
    /\ tool_name = "aws_cloud_control"
    /\ narration = "diagnosis"
    /\ generation_outcome = "APIStatusError"
    /\ provider_answer.kind = "fault"
    /\ epc = "returned"

----------------------------------------------------------------------------
\* Observations of the request threads.

\* C28: the tool-definition schema is loaded once per process: tools.json is
\* read at most once and every _format_tools call, from any thread, returns
\* the same cached object, also when the first calls interleave.
C28_ToolsLoadedOnce ==
    /\ file_reads <= 1
    /\ Cardinality(tools_returned) <= 1

\* C29: get_agent yields a singleton: every call that returns, concurrent
\* first calls included, returns the same agent, and the constructor
\* completes at most once per process.
C29_AgentSingleton ==
    /\ Cardinality(agents_returned) <= 1
    /\ instances <= 1

\* C30: validate_connection returns True when the identity call succeeds
\* and raises AWSConnectionError when credentials are missing or the identity
\* call fails with a client error; it never returns False, and an agent is
\* built only after a connection test that returned True.
C30_ConnectionTestOutcomes ==
    \A t \in Threads :
        /\ connection[t].identity = "ok" => connection[t].result = "True"
        /\ connection[t].identity \in {"NoCredentialsError", "ClientError"}
           => connection[t].result = "AWSConnectionError"
        /\ connection[t].result # "False"
        /\ made[t] # 0 => connection[t].result = "True"
        /\ tpc[t] = "store" => connection[t].result = "True"

C30_Witness ==
    /\ connection[1].identity = "ClientError"
    /\ connection[1].result = "AWSConnectionError"
    /\ made[1] = 0
    /\ connection[2].result = "True"
    /\ made[2] = 1
    /\ cache = 1

\* the events of the provider's answer to the log query
EventsReturned ==
    IF provider_answer.value.events = NoneValue THEN <<>>
    ELSE provider_answer.value.events.some

\* C31: a successful log query lists at most 10 entries, they are the most
\* recent matching events ordered newest first, and error_count is the
\* number of matching events the provider returned.
C31_NewestTenAndTotalCount ==
    (/\ tool_name = "cloudwatch_logs"
     /\ epc \in {"narrate", "returned"}
     /\ tool_result.status = "success")
    => LET logs   == tool_result.error_logs.some
           events == EventsReturned
       IN  /\ Len(logs) <= LogLimit
           /\ tool_result.error_count.some = Len(events)
           /\ \A i, j \in 1..Len(logs) :
                 i < j => logs[i].timestamp.iso >= logs[j].timestamp.iso
           /\ \A i \in 1..Len(logs) : \A k \in 1..Len(events) :
                 events[k].timestamp > logs[i].timestamp.iso
                 => \E j \in 1..Len(logs) :
                       logs[j].timestamp.iso = events[k].timestamp

\* the tool-result entries recorded in the tool-result turns of h
RECURSIVE RecordedResults(_)
RecordedResults(h) ==
    IF h = <<>> THEN 0
    ELSE LET t == h[Len(h)]
         IN  RecordedResults(SubSeq(h, 1, Len(h) - 1))
             + (IF IsToolResultTurn(t) THEN Len(ResultIds(t)) ELSE 0)

\* C32: when process_request has ended, in any way, the history holds the
\* tool-call segment and the serialized result of every tool call the loop
\* handed to _execute_tool.
C32_EveryToolCallRecorded ==
    Terminated =>
        /\ RecordedCalls(SubSeq(history, Len(history0) + 1, Len(history)))
              = tool_calls
        /\ RecordedResults(SubSeq(history, Len(history0) + 1, Len(history)))
              = tool_calls

\* the tool-call segments collected so far in the running iteration
CallsCollected == SelectSeq(assistant_content, IsToolUse)

\* the tool_use blocks among the first n blocks of the response
ToolUseBlocksBefore(n) ==
    Cardinality({k \in 1..(n - 1) : response.content[k].type = "tool_use"})

\* the history ends with the turns of the iteration that just ran
EndsWithIterationTurns ==
    LET n == Len(history)
    IN  IF tool_results # <<>>
        THEN /\ n >= Len(history0) + 3
             /\ history[n - 1] = Turn("assistant", ListContent(assistant_content))
             /\ history[n] = Turn("user", ListContent(tool_results))
        ELSE /\ n >= Len(history0) + 2
             /\ history[n] = Turn("assistant", ListContent(assistant_content))

\* C33: within one request the tool calls of a response are dispatched one
\* at a time in segment order, each result is known before the next block is
\* taken, and generation call i+1 is issued only after the assistant turn and
\* the tool-result turn of iteration i are in the history it is sent.
C33_StrictlySequential ==
    /\ [](pc = "blocks" =>
            /\ Len(tool_results) = Len(CallsCollected)
            /\ Len(tool_results) = ToolUseBlocksBefore(block)
            /\ tool_calls >= Len(tool_results)
            /\ \A k \in 1..Len(tool_results) :
                  /\ tool_results[k].tool_use_id = CallsCollected[k].id
                  /\ CallsCollected[k].id.ix < block
                  /\ k > 1 => CallsCollected[k - 1].id.ix < CallsCollected[k].id.ix)
    /\ [][(gen_calls' = gen_calls + 1 /\ iteration >= 1)
             => (pc = "loop" /\ EndsWithIterationTurns)]_vars

C33_Witness ==
    /\ gen_calls = 2
    /\ pc = "blocks"
    /\ RecordedCalls(Appended) = 2
    /\ RecordedResults(Appended) = 2

\* C34: the delay and the elapsed time are set when the poller starts and
\* change only in the sleep after a non-terminal poll: elapsed grows by
\* exactly the delay slept and the next delay is min(1.5 x delay, 30 s); the
\* first delay slept is initial_delay.
C34_ElapsedAndDelayUpdates ==
    /\ [](Len(slept) >= 1 => slept[1] = initial_delay)
    /\ [][(elapsed' # elapsed \/ delay' # delay \/ slept' # slept)
            => \/ /\ ppc = "start"
                  /\ elapsed' = 0
                  /\ delay' = initial_delay
                  /\ slept' = slept
               \/ /\ ppc = "sleep"
                  /\ operation_status \notin TerminalStatuses
                  /\ Len(slept) < MaxCount => slept' = Append(slept, delay)
                  /\ elapsed' = elapsed + delay
                  /\ 3 * delay <= 2 * MaxDelayTicks => 2 * delay' = 3 * delay
                  /\ 3 * delay > 2 * MaxDelayTicks => delay' = MaxDelayTicks]_vars
    /\ [][(ppc = "sleep" /\ ppc' # "sleep")
            => (elapsed' = elapsed + delay /\ sleeps' >= sleeps)]_vars

C34_Witness ==
    /\ initial_delay = Seconds(10)
    /\ sleeps = 4
    /\ slept = <<Seconds(10), Seconds(15), (Seconds(45)) \div 2, MaxDelayTicks>>
    /\ delay = MaxDelayTicks
    /\ elapsed = (Seconds(155)) \div 2

\* C35: list pagination passes tokens through unchanged: a NextToken is sent
\* to the provider exactly when the caller gave a non-empty next_token, and
\* then that token; the next_token of a successful list result is the
\* provider's NextToken, and None exactly when the provider returned none.
C35_PaginationTokensPassThrough ==
    /\ \A k \in 1..Len(provider_calls) :
          provider_calls[k].api = "list_resources"
          => /\ provider_calls[k].NextToken # "absent"
                <=> (args.next_token # NoneValue /\ args.next_token # Some(""))
             /\ provider_calls[k].NextToken # "absent"
                => args.next_token = Some(provider_calls[k].NextToken)
    /\ (/\ Produced
        /\ op_result.status = "success"
        /\ op_result.operation = "list")
       => /\ Responded
          /\ op_result.next_token = NoneValue
                <=> provider_answer.value.NextToken = "absent"
          /\ op_result.next_token # NoneValue
                => op_result.next_token.some = provider_answer.value.NextToken

C35_Witness ==
    /\ epc = "returned"
    /\ Executed
    /\ Responded
    /\ args.operation = "list"
    /\ args.next_token = Some("page-2")
    /\ Len(provider_calls) = 1
    /\ provider_calls[1].NextToken = "page-2"
    /\ provider_answer.value.NextToken = "page-3"
    /\ op_result.status = "success"
    /\ op_result.next_token = Some("page-3")

\* the provider operation each member of AWSOperation calls
ApiOf(operation) ==
    IF operation = "create" THEN "create_resource"
    ELSE IF operation = "read" THEN "get_resource"
    ELSE IF operation = "update" THEN "update_resource"
    ELSE IF operation = "delete" THEN "delete_resource"
    ELSE "list_resources"

\* C36: every resource-control provider call made for a dispatch of the
\* resource-control tool uses arguments that passed the schema: an operation
\* of the enum, a well-formed resource type, a region of the allow-list, a
\* safe identifier where one is sent, and a result count between 1 and 100
\* that is the count the tool call asked for (never a capped one).
C36_ProviderCallsUseValidatedArguments ==
    (entry = "dispatcher" /\ provider_calls # <<>>)
    => /\ tool_name = "aws_cloud_control"
       /\ args.operation \in AWSOperation
       /\ args.region \in ValidRegions
       /\ \A k \in 1..Len(provider_calls) :
             LET call == provider_calls[k]
             IN  /\ call.api = ApiOf(args.operation)
                 /\ call.TypeName \in WellFormedResourceTypes
                 /\ call.TypeName = tool_input.resource_type
                 /\ call.api \in {"get_resource", "update_resource",
                                  "delete_resource"}
                    => /\ call.Identifier \in SafeIdentifiers
                       /\ tool_input.identifier \in {call.Identifier,
                                                     " bucket-1 "}
                 /\ call.api = "list_resources"
                    => /\ call.MaxResults \in 1..100
                       /\ call.MaxResults = tool_input.max_results

C36_Witness ==
    /\ entry = "dispatcher"
    /\ epc = "returned"
    /\ Len(provider_calls) = 1
    /\ provider_calls[1].api = "list_resources"
    /\ provider_calls[1].MaxResults = 100
    /\ tool_input.max_results = 100
    /\ tool_input.region = "absent"
    /\ args.region = "us-east-1"

\* the result dispatch obtained is labelled as a validation error
IsValidationError(res) ==
    /\ res.status = "error"
    /\ res.error # NoneValue
    /\ Len(res.error.some) >= 1
    /\ res.error.some[1] = "Validation error: "

\* C37: dispatch reports a result whose message starts with "Validation
\* error" only if the tool arguments failed the schema and no provider call
\* was made; a failure after a provider call is never reported that way.
C37_ValidationErrorsOnlyFromSchema ==
    (/\ entry = "dispatcher"
     /\ tool_name = "aws_cloud_control"
     /\ epc \in {"narrate", "returned"}
     /\ IsValidationError(tool_result))
    => /\ ~Validates(tool_input)
       /\ provider_calls = <<>>
       /\ provider_answer = NoAnswer

\* the sum of the members of a sequence of numbers
RECURSIVE SumOf(_)
SumOf(seq) ==
    IF seq = <<>> THEN 0
    ELSE seq[Len(seq)] + SumOf(SubSeq(seq, 1, Len(seq) - 1))

\* C38: the total time slept by one call of the poller never exceeds
\* max_wait_seconds, for every max_wait_seconds and initial_delay.
C38_TotalSleepWithinBudget ==
    /\ SumOf(slept) <= Seconds(max_wait_seconds)
    /\ elapsed <= Seconds(max_wait_seconds)

\* C39: from the user turn that process_request appends onward the turns of
\* the history alternate strictly between user and assistant, and every
\* generation call is sent a history that ends with a user-role turn.
C39_RolesAlternate ==
    /\ Appended # <<>> => Appended[1].role = "user"
    /\ \A i \in 1..(Len(Appended) - 1) :
          Appended[i].role # Appended[i + 1].role
    /\ (pc = "loop" /\ LoopGuard(iteration, max_iterations))
       => (history # <<>> /\ history[Len(history)].role = "user")

\* models.py lines 16-22: a turn that ChatMessage accepts
IsChatMessage(t) ==
    /\ t.role \in {"user", "assistant"}
    /\ t.content.ctype = "str"

\* C40: every turn that process_request appends to the history satisfies the
\* ChatMessage contract (a role of user or assistant, a string content), so
\* that /chat can build its ChatResponse from the history after a normal
\* return.
C40_AppendedTurnsAreChatMessages ==
    \A i \in 1..Len(Appended) : IsChatMessage(Appended[i])

====
